---------------------------- MODULE Spec2Model ----------------------------
(***************************************************************************)
(* Model of the text-similarity and grouping engine of the ai-processor    *)
(* library: SimilarityCalculator (similarity_calculator.cpp) and           *)
(* GroupSuggester (group_suggester.cpp).                                   *)
(*                                                                         *)
(* Strings.  A std::string is a sequence of one-character strings, so     *)
(* that its length and its characters can be inspected as the code does.   *)
(*                                                                         *)
(* Numbers.  The C++ code computes in double and float.  Here every such   *)
(* value is a fixed-point number: an integer count of 1/Scale units, each  *)
(* arithmetic operation rounding towards zero.  Scale is divisible by      *)
(* every denominator the decimal literals of the code need (2, 4, 5, 10,   *)
(* 20) and by 1..10, so those literals and small set ratios are exact.     *)
(*                                                                         *)
(* Indices.  Loop variables and page indices are 0-based as in the code;   *)
(* At(s, i) is s[i] of the code.                                           *)
(*                                                                         *)
(* Unspecified order.  Iterating a std::unordered_map and the order       *)
(* std::sort leaves equal elements in are not fixed by the language: an    *)
(* operator named ...Results is the set of all outcomes a build can give.  *)
(***************************************************************************)
EXTENDS Integers, Sequences, FiniteSets

Scale == 2520

\* The fixed-point value of the literal n/d.
Fx(n, d) == (n * Scale) \div d
FxMul(a, b) == (a * b) \div Scale
FxDiv(a, b) == (a * Scale) \div b

At(s, i) == s[i + 1]
Range(s) == {s[k] : k \in 1..Len(s)}
Occurrences(s, x) == Cardinality({k \in 1..Len(s) : s[k] = x})
NoDuplicates(s) == \A a, b \in 1..Len(s) : s[a] = s[b] => a = b

RECURSIVE SumOver(_, _)
\* Sum of f[x] over the finite set dom.
SumOver(f, dom) ==
    IF dom = {} THEN 0
    ELSE LET x == CHOOSE y \in dom : TRUE IN f[x] + SumOver(f, dom \ {x})

RECURSIVE Gcd(_, _)
Gcd(a, b) == IF b = 0 THEN a ELSE Gcd(b, a % b)

RECURSIVE Concat(_)
\* The concatenation of a sequence of sequences.
Concat(ss) == IF ss = <<>> THEN <<>> ELSE Head(ss) \o Concat(Tail(ss))

RECURSIVE SeqProduct(_)
\* All sequences r with r[k] \in sets[k]: one independent choice per position.
SeqProduct(sets) ==
    IF sets = <<>> THEN {<<>>}
    ELSE {<<h>> \o t : h \in Head(sets), t \in SeqProduct(Tail(sets))}

\* The bijections of 1..n onto itself.
Perms(n) == {p \in [1..n -> 1..n] : \A a, b \in 1..n : p[a] = p[b] => a = b}

(***************************************************************************)
(* Characters: std::isalnum, std::tolower, std::toupper in the "C" locale. *)
(***************************************************************************)
LowerChars == <<"a","b","c","d","e","f","g","h","i","j","k","l","m",
                "n","o","p","q","r","s","t","u","v","w","x","y","z">>
UpperChars == <<"A","B","C","D","E","F","G","H","I","J","K","L","M",
                "N","O","P","Q","R","S","T","U","V","W","X","Y","Z">>
DigitChars == <<"0","1","2","3","4","5","6","7","8","9">>

AlnumChars == Range(LowerChars) \cup Range(UpperChars) \cup Range(DigitChars)
ToLowerMap == [c \in Range(UpperChars) |->
                 LowerChars[CHOOSE k \in 1..Len(UpperChars) : UpperChars[k] = c]]
ToUpperMap == [c \in Range(LowerChars) |->
                 UpperChars[CHOOSE k \in 1..Len(LowerChars) : LowerChars[k] = c]]

IsAlnum(c) == c \in AlnumChars
ToLower(c) == IF c \in DOMAIN ToLowerMap THEN ToLowerMap[c] ELSE c
ToUpper(c) == IF c \in DOMAIN ToUpperMap THEN ToUpperMap[c] ELSE c

RECURSIVE to_string(_)
\* std::to_string of a size_t: its decimal digits.
to_string(n) ==
    IF n < 10 THEN <<DigitChars[n + 1]>>
    ELSE Append(to_string(n \div 10), DigitChars[(n % 10) + 1])

(***************************************************************************)
(* SimilarityCalculator                                                    *)
(***************************************************************************)
STOP_WORDS ==
    {<<"t","h","e">>, <<"a">>, <<"a","n">>, <<"a","n","d">>, <<"o","r">>,
     <<"b","u","t">>, <<"i","n">>, <<"o","n">>, <<"a","t">>, <<"t","o">>,
     <<"f","o","r">>, <<"o","f">>, <<"w","i","t","h">>, <<"b","y">>,
     <<"f","r","o","m">>, <<"a","s">>, <<"i","s">>, <<"w","a","s">>,
     <<"a","r","e">>, <<"w","e","r","e">>, <<"b","e","e","n">>, <<"b","e">>,
     <<"h","a","v","e">>, <<"h","a","s">>, <<"h","a","d">>, <<"d","o">>,
     <<"d","o","e","s">>, <<"d","i","d">>, <<"w","i","l","l">>,
     <<"w","o","u","l","d">>, <<"c","o","u","l","d">>,
     <<"s","h","o","u","l","d">>, <<"m","a","y">>, <<"m","i","g","h","t">>,
     <<"m","u","s","t">>, <<"s","h","a","l","l">>, <<"c","a","n">>,
     <<"n","e","e","d">>, <<"d","a","r","e">>, <<"o","u","g","h","t">>,
     <<"u","s","e","d">>, <<"t","h","i","s">>, <<"t","h","a","t">>,
     <<"t","h","e","s","e">>, <<"t","h","o","s","e">>, <<"i">>,
     <<"y","o","u">>, <<"h","e">>, <<"s","h","e">>, <<"i","t">>, <<"w","e">>,
     <<"t","h","e","y">>, <<"w","h","a","t">>, <<"w","h","i","c","h">>,
     <<"w","h","o">>, <<"w","h","o","m">>, <<"w","h","o","s","e">>,
     <<"w","h","e","r","e">>, <<"w","h","e","n">>, <<"w","h","y">>,
     <<"h","o","w">>, <<"a","l","l">>, <<"e","a","c","h">>,
     <<"e","v","e","r","y">>, <<"b","o","t","h">>, <<"f","e","w">>,
     <<"m","o","r","e">>, <<"m","o","s","t">>, <<"o","t","h","e","r">>,
     <<"s","o","m","e">>, <<"s","u","c","h">>, <<"n","o">>, <<"n","o","r">>,
     <<"n","o","t">>, <<"o","n","l","y">>, <<"o","w","n">>,
     <<"s","a","m","e">>, <<"s","o">>, <<"t","h","a","n">>, <<"t","o","o">>,
     <<"v","e","r","y">>, <<"j","u","s","t">>, <<"a","l","s","o">>,
     <<"n","o","w">>, <<"h","e","r","e">>, <<"t","h","e","r","e">>}

\* The filter a finished word passes to become a token.
KeepToken(word) == Len(word) > 2 /\ word \notin STOP_WORDS

RECURSIVE TokenizeFrom(_, _, _, _)
\* The scan of Tokenize from position k (1-based), with the word accumulated.
TokenizeFrom(text, k, word, tokens) ==
    IF k > Len(text)
    THEN IF word /= <<>> /\ KeepToken(word) THEN Append(tokens, word) ELSE tokens
    ELSE IF IsAlnum(text[k])
         THEN TokenizeFrom(text, k + 1, Append(word, ToLower(text[k])), tokens)
         ELSE IF word /= <<>>
              THEN TokenizeFrom(text, k + 1, <<>>,
                       IF KeepToken(word) THEN Append(tokens, word) ELSE tokens)
              ELSE TokenizeFrom(text, k + 1, word, tokens)

Tokenize(text) == TokenizeFrom(text, 1, <<>>, <<>>)

\* tf[token] is count / doc_length, kept as the pair of both.
CalculateTermFrequency(tokens) ==
    [t \in Range(tokens) |-> [count |-> Occurrences(tokens, t), len |-> Len(tokens)]]

RECURSIVE SqrtSearch(_, _, _, _)
\* The largest r in lo..hi with (r/Scale)^2 <= p/q: sqrt(p/q) in fixed point.
SqrtSearch(lo, hi, p, q) ==
    IF lo = hi THEN lo
    ELSE LET mid == (lo + hi + 1) \div 2 IN
         IF mid * mid * q <= Scale * Scale * p
         THEN SqrtSearch(mid, hi, p, q)
         ELSE SqrtSearch(lo, mid - 1, p, q)

\* The cosine of the angle between two term-frequency vectors.
CosineOfFrequencies(tf_a, tf_b) ==
    LET all_terms == DOMAIN tf_a \cup DOMAIN tf_b
        val_a == [t \in all_terms |-> IF t \in DOMAIN tf_a THEN tf_a[t].count ELSE 0]
        val_b == [t \in all_terms |-> IF t \in DOMAIN tf_b THEN tf_b[t].count ELSE 0]
        \* numerators over the common denominators len_a*len_b, len_a^2, len_b^2
        dot_product == SumOver([t \in all_terms |-> val_a[t] * val_b[t]], all_terms)
        magnitude_a == SumOver([t \in all_terms |-> val_a[t] * val_a[t]], all_terms)
        magnitude_b == SumOver([t \in all_terms |-> val_b[t] * val_b[t]], all_terms)
    IN  IF magnitude_a = 0 \/ magnitude_b = 0 THEN 0
        ELSE \* dot / (sqrt(mag_a) * sqrt(mag_b)); the lengths cancel
             LET p == dot_product * dot_product
                 q == magnitude_a * magnitude_b
                 g == Gcd(p, q)
             IN  IF p = 0 THEN 0 ELSE SqrtSearch(0, Scale, p \div g, q \div g)

CosineOfTokens(tokens_a, tokens_b) ==
    IF tokens_a = <<>> \/ tokens_b = <<>> THEN 0
    ELSE CosineOfFrequencies(CalculateTermFrequency(tokens_a),
                             CalculateTermFrequency(tokens_b))

CalculateCosineSimilarity(text_a, text_b) ==
    CosineOfTokens(Tokenize(text_a), Tokenize(text_b))

\* |A \cap B| / |A \cup B| of two non-empty sets.
SetOverlap(set_a, set_b) ==
    LET intersection == Cardinality(set_a \cap set_b)
        union_size == Cardinality(set_a) + Cardinality(set_b) - intersection
    IN  FxDiv(intersection, union_size)

CalculateJaccardSimilarity(keywords_a, keywords_b) ==
    IF keywords_a = <<>> /\ keywords_b = <<>> THEN Scale
    ELSE IF keywords_a = <<>> \/ keywords_b = <<>> THEN 0
    ELSE SetOverlap(Range(keywords_a), Range(keywords_b))

RECURSIVE JoinTokens(_, _, _)
\* tokens[i], ..., tokens[i+n-1] (1-based) joined with single spaces.
JoinTokens(tokens, i, n) ==
    IF n = 1 THEN tokens[i]
    ELSE JoinTokens(tokens, i, n - 1) \o <<" ">> \o tokens[i + n - 1]

\* NGramsOfTokens giving no n-gram for fewer than n tokens.
NGramsOfTokensOrNone(tokens, n) ==
    IF Len(tokens) < n THEN <<>>
    ELSE [i \in 1..(Len(tokens) - n + 1) |-> JoinTokens(tokens, i, n)]

\* The n-grams of a token list: the tokens themselves when fewer than n.
NGramsOfTokens(tokens, n) ==
    IF Len(tokens) < n THEN tokens
    ELSE [i \in 1..(Len(tokens) - n + 1) |-> JoinTokens(tokens, i, n)]

CalculateNGrams(text, n) == NGramsOfTokens(Tokenize(text), n)

\* The Jaccard overlap of two lists of n-grams.
NGramOverlap(ngrams_a, ngrams_b) ==
    IF ngrams_a = <<>> /\ ngrams_b = <<>> THEN Scale
    ELSE IF ngrams_a = <<>> \/ ngrams_b = <<>> THEN 0
    ELSE SetOverlap(Range(ngrams_a), Range(ngrams_b))

CalculateNGramSimilarity(text_a, text_b, n) ==
    NGramOverlap(CalculateNGrams(text_a, n), CalculateNGrams(text_b, n))

CalculateCombinedSimilarity(text_a, text_b) ==
    LET cosine_sim == CalculateCosineSimilarity(text_a, text_b)
        bigram_sim == CalculateNGramSimilarity(text_a, text_b, 2)
        trigram_sim == CalculateNGramSimilarity(text_a, text_b, 3)
    IN  FxMul(Fx(5, 10), cosine_sim) + FxMul(Fx(3, 10), bigram_sim)
            + FxMul(Fx(2, 10), trigram_sim)

(***************************************************************************)
(* GroupSuggester: helpers                                                 *)
(***************************************************************************)
Min2(a, b) == IF b < a THEN b ELSE a
Max2(a, b) == IF a < b THEN b ELSE a

RECURSIVE AscendingSeq(_)
\* The elements of a finite set of integers in increasing order.
AscendingSeq(S) ==
    IF S = {} THEN <<>>
    ELSE LET m == CHOOSE x \in S : \A y \in S : x <= y
         IN  <<m>> \o AscendingSeq(S \ {m})

RECURSIVE JoinWith(_, _)
\* words[1] sep words[2] sep ... of a non-empty sequence of strings.
JoinWith(words, sep) ==
    IF Len(words) = 1 THEN words[1]
    ELSE words[1] \o sep \o JoinWith(Tail(words), sep)

\* Whether lit occurs in text at position k (1-based).
StartsWithAt(text, k, lit) ==
    /\ k + Len(lit) - 1 <= Len(text)
    /\ \A m \in 1..Len(lit) : text[k + m - 1] = lit[m]

\* Where a match of the regular expression https?://([^/]+) starting at
\* position k has its group start, or 0 when there is no match at k.
UrlMatchAt(text, k) ==
    LET e == IF StartsWithAt(text, k, <<"h","t","t","p","s",":","/","/">>) THEN k + 8
             ELSE IF StartsWithAt(text, k, <<"h","t","t","p",":","/","/">>) THEN k + 7
             ELSE 0
    IN  IF e /= 0 /\ e <= Len(text) /\ text[e] /= "/" THEN e ELSE 0

\* Impl::ExtractDomain: the group of the leftmost match, or the empty string.
ExtractDomain(text) ==
    LET starts == {k \in 1..Len(text) : UrlMatchAt(text, k) /= 0} IN
    IF starts = {} THEN <<>>
    ELSE LET k == CHOOSE x \in starts : \A y \in starts : x <= y
             e == UrlMatchAt(text, k)
             slashes == {m \in e..Len(text) : text[m] = "/"}
             f == IF slashes = {} THEN Len(text)
                  ELSE (CHOOSE x \in slashes : \A y \in slashes : x <= y) - 1
         IN  SubSeq(text, e, f)

RECURSIVE ScanWords(_, _, _, _)
\* The scan FindCommonWords makes of one text: the words (lower-cased runs
\* of alphanumerics longer than 3) it counts for that text, each once.
ScanWords(text, k, word, seen_in_doc) ==
    IF k > Len(text)
    THEN IF word /= <<>> /\ Len(word) > 3 THEN seen_in_doc \cup {word}
         ELSE seen_in_doc
    ELSE IF IsAlnum(text[k])
         THEN ScanWords(text, k + 1, Append(word, ToLower(text[k])), seen_in_doc)
         ELSE IF word /= <<>>
              THEN ScanWords(text, k + 1, <<>>,
                       IF Len(word) > 3 THEN seen_in_doc \cup {word}
                       ELSE seen_in_doc)
              ELSE ScanWords(text, k + 1, word, seen_in_doc)

\* word_counts of FindCommonWords: in how many of the texts each word occurs.
WordCounts(texts) ==
    LET seen == [k \in 1..Len(texts) |-> ScanWords(texts[k], 1, <<>>, {})]
        words == UNION {seen[k] : k \in 1..Len(texts)}
    IN  [w \in words |-> Cardinality({k \in 1..Len(texts) : w \in seen[k]})]

\* The first max_words words by decreasing count.  Words of equal count
\* come in the unordered_map's order, which is any.
TopWordsResults(word_counts, max_words) ==
    LET words == DOMAIN word_counts
        m == Min2(max_words, Cardinality(words))
    IN  {r \in [1..m -> words] :
            /\ \A a, b \in 1..m : a < b =>
                   r[a] /= r[b] /\ word_counts[r[a]] >= word_counts[r[b]]
            /\ \A w \in words \ Range(r) :
                   \A a \in 1..m : word_counts[w] <= word_counts[r[a]]}

\* Impl::FindCommonWords.
FindCommonWordsResults(texts, max_words) ==
    TopWordsResults(WordCounts(texts), max_words)

(***************************************************************************)
(* GroupSuggester::SuggestByContent                                        *)
(***************************************************************************)
RECURSIVE ContentInnerChained(_, _, _, _, _, _)
\* ContentInner comparing a candidate with the member added last instead of
\* with the seed.
ContentInnerChained(pgs, threshold, i, j, asg, group_indices) ==
    IF j >= Len(pgs)
    THEN [assigned |-> asg, group_indices |-> group_indices]
    ELSE IF At(asg, j)
         THEN ContentInnerChained(pgs, threshold, i, j + 1, asg, group_indices)
         ELSE LET last == group_indices[Len(group_indices)]
                  similarity ==
                      CalculateCosineSimilarity(At(pgs, last).text, At(pgs, j).text)
              IN  IF similarity >= threshold
                  THEN ContentInnerChained(pgs, threshold, i, j + 1,
                           [asg EXCEPT ![j + 1] = TRUE], Append(group_indices, j))
                  ELSE ContentInnerChained(pgs, threshold, i, j + 1, asg,
                                           group_indices)

RECURSIVE ContentInner(_, _, _, _, _, _)
\* The inner loop of SuggestByContent from j on, for the seed i.
ContentInner(pgs, threshold, i, j, asg, group_indices) ==
    IF j >= Len(pgs)
    THEN [assigned |-> asg, group_indices |-> group_indices]
    ELSE IF At(asg, j)
         THEN ContentInner(pgs, threshold, i, j + 1, asg, group_indices)
         ELSE LET similarity ==
                      CalculateCosineSimilarity(At(pgs, i).text, At(pgs, j).text)
              IN  IF similarity >= threshold
                  THEN ContentInner(pgs, threshold, i, j + 1,
                           [asg EXCEPT ![j + 1] = TRUE], Append(group_indices, j))
                  ELSE ContentInner(pgs, threshold, i, j + 1, asg, group_indices)

\* ContentGroup with the ids counted from 1.
ContentGroupFromOne(name, threshold, group_indices) ==
    [group_name |-> name,
     description |-> <<"P","a","g","e","s"," ","w","i","t","h"," ","s","i","m","i","l","a","r"," ","c","o","n","t","e","n","t">>,
     page_ids |-> [k \in 1..Len(group_indices) |->
                      to_string(group_indices[k] + 1)],
     similarity_score |-> threshold]

\* The names SuggestByContent can give a group, n_suggestions groups made.
ContentGroupNames(texts, n_suggestions) ==
    {IF common_words /= <<>> THEN JoinWith(common_words, <<" ","&"," ">>)
     ELSE <<"G","r","o","u","p"," ">> \o to_string(n_suggestions + 1) :
         common_words \in FindCommonWordsResults(texts, 3)}

ContentGroup(name, threshold, group_indices) ==
    [group_name |-> name,
     description |-> <<"P","a","g","e","s"," ","w","i","t","h"," ","s","i","m","i","l","a","r"," ","c","o","n","t","e","n","t">>,
     page_ids |-> [k \in 1..Len(group_indices) |-> to_string(group_indices[k])],
     similarity_score |-> threshold]

\* The end of an iteration of the outer loop, the inner loop having given
\* inner = [assigned, group_indices].
ContentAfterInner(pgs, threshold, st, inner) ==
    IF Len(inner.group_indices) > 1
    THEN LET texts == [k \in 1..Len(inner.group_indices) |->
                          At(pgs, inner.group_indices[k]).text]
         IN  {[i |-> st.i + 1, assigned |-> inner.assigned,
               suggestions |-> Append(st.suggestions,
                   ContentGroup(name, threshold, inner.group_indices))] :
                 name \in ContentGroupNames(texts, Len(st.suggestions))}
    ELSE {[i |-> st.i + 1, assigned |-> inner.assigned,
           suggestions |-> st.suggestions]}

\* One iteration of the outer loop of SuggestByContent, from the loop state
\* st = [i, assigned, suggestions]: the loop states it can lead to.
ContentIterationResults(pgs, threshold, st) ==
    IF At(st.assigned, st.i) THEN {[st EXCEPT !.i = @ + 1]}
    ELSE ContentAfterInner(pgs, threshold, st,
             ContentInner(pgs, threshold, st.i, st.i + 1,
                 [st.assigned EXCEPT ![st.i + 1] = TRUE], <<st.i>>))

ContentStart(pgs) ==
    [i |-> 0, assigned |-> [k \in 1..Len(pgs) |-> FALSE], suggestions |-> <<>>]

RECURSIVE ContentRun(_, _, _)
ContentRun(pgs, threshold, st) ==
    IF st.i >= Len(pgs) THEN {st.suggestions}
    ELSE UNION {ContentRun(pgs, threshold, nxt) :
                    nxt \in ContentIterationResults(pgs, threshold, st)}

SuggestByContentResults(pgs, threshold) ==
    IF pgs = <<>> THEN {<<>>}
    ELSE ContentRun(pgs, threshold, ContentStart(pgs))

(***************************************************************************)
(* GroupSuggester::SuggestByDomain, SuggestByTopic                         *)
(***************************************************************************)
DomainOf(page) ==
    LET domain == IF page.links /= <<>> THEN ExtractDomain(page.links[1])
                  ELSE <<>>
    IN  IF domain = <<>> THEN <<"u","n","k","n","o","w","n">> ELSE domain

TopicOf(page) ==
    IF page.keywords /= <<>> THEN page.keywords[1] ELSE <<"g","e","n","e","r","a","l">>

\* The map from key to the indices (0-based, increasing) of the pages with it,
\* keys[k] being the key of the k-th page.
BucketsBy(keys) ==
    [key \in Range(keys) |->
        AscendingSeq({i \in 0..(Len(keys) - 1) : At(keys, i) = key})]

\* One group per bucket of more than one page, in the map's iteration order.
BucketGroupsResults(buckets, prefix, score) ==
    LET big == {key \in DOMAIN buckets : Len(buckets[key]) > 1}
        n == Cardinality(big)
    IN  {[k \in 1..n |->
             [group_name |-> order[k],
              description |-> prefix \o order[k],
              page_ids |-> [m \in 1..Len(buckets[order[k]]) |->
                               to_string(buckets[order[k]][m])],
              similarity_score |-> score]] :
           order \in {o \in [1..n -> big] :
                         \A a, b \in 1..n : o[a] = o[b] => a = b}}

SuggestByDomainResults(pgs) ==
    BucketGroupsResults(BucketsBy([k \in 1..Len(pgs) |-> DomainOf(pgs[k])]),
                        <<"P","a","g","e","s"," ","f","r","o","m"," ">>, Fx(1, 1))

SuggestByTopicResults(pgs) ==
    BucketGroupsResults(BucketsBy([k \in 1..Len(pgs) |-> TopicOf(pgs[k])]),
                        <<"P","a","g","e","s"," ","a","b","o","u","t"," ">>, Fx(8, 10))

(***************************************************************************)
(* GroupSuggester::MergeGroups                                             *)
(***************************************************************************)
\* GroupOverlap dividing by the size of the smaller set instead of the union.
GroupOverlapOfSmaller(ids_a, ids_b) ==
    LET set_a == Range(ids_a)
        set_b == Range(ids_b)
        intersection == Cardinality(set_a \cap set_b)
        min_size == Min2(Cardinality(set_a), Cardinality(set_b))
    IN  IF min_size > 0 THEN FxDiv(intersection, min_size) ELSE 0

\* The overlap of two member lists: |A \cap B| / |A \cup B| of their id sets.
GroupOverlap(ids_a, ids_b) ==
    LET set_a == Range(ids_a)
        set_b == Range(ids_b)
        intersection == Cardinality(set_a \cap set_b)
        union_size == Cardinality(set_a) + Cardinality(set_b) - intersection
    IN  IF union_size > 0 THEN FxDiv(intersection, union_size) ELSE 0

\* FoldGroup appending every id of groups[j], those already present too.
FoldGroupAppendingAll(merged_group, group_j) ==
    [merged_group EXCEPT
        !.page_ids = @ \o group_j.page_ids,
        !.similarity_score = Min2(@, group_j.similarity_score)]

\* FoldGroup taking the score of groups[j] instead of the minimum.
FoldGroupTakingScore(merged_group, group_j) ==
    LET set_a == Range(merged_group.page_ids) IN
    [merged_group EXCEPT
        !.page_ids = @ \o SelectSeq(group_j.page_ids, LAMBDA id : id \notin set_a),
        !.similarity_score = group_j.similarity_score]

\* groups[j] folded into merged_group.
FoldGroup(merged_group, group_j) ==
    LET set_a == Range(merged_group.page_ids) IN
    [merged_group EXCEPT
        !.page_ids = @ \o SelectSeq(group_j.page_ids, LAMBDA id : id \notin set_a),
        !.similarity_score = Min2(@, group_j.similarity_score)]

RECURSIVE MergeInner(_, _, _, _, _, _)
\* The inner loop of MergeGroups from j on.  folded lists the indices of the
\* input groups that make up merged_group (a history of the loop).
MergeInner(gs, threshold, j, proc, merged_group, folded) ==
    IF j >= Len(gs)
    THEN [processed |-> proc, merged_group |-> merged_group, folded |-> folded]
    ELSE IF At(proc, j)
         THEN MergeInner(gs, threshold, j + 1, proc, merged_group, folded)
         ELSE IF GroupOverlap(merged_group.page_ids, At(gs, j).page_ids) >= threshold
              THEN MergeInner(gs, threshold, j + 1, [proc EXCEPT ![j + 1] = TRUE],
                       FoldGroup(merged_group, At(gs, j)), Append(folded, j))
              ELSE MergeInner(gs, threshold, j + 1, proc, merged_group, folded)

\* The end of an iteration of the outer loop, the inner loop having given
\* inner = [processed, merged_group, folded].
MergeAfterInner(st, inner) ==
    [i |-> st.i + 1,
     processed |-> inner.processed,
     merged |-> Append(st.merged, inner.merged_group),
     merged_from |-> Append(st.merged_from, inner.folded)]

\* MergeIteration without the test of processed[i].
MergeIterationOfProcessed(gs, threshold, st) ==
    MergeAfterInner(st,
        MergeInner(gs, threshold, st.i + 1,
            [st.processed EXCEPT ![st.i + 1] = TRUE], At(gs, st.i), <<st.i>>))

\* One iteration of the outer loop of MergeGroups, from the loop state
\* st = [i, processed, merged, merged_from].
MergeIteration(gs, threshold, st) ==
    IF At(st.processed, st.i) THEN [st EXCEPT !.i = @ + 1]
    ELSE MergeAfterInner(st,
             MergeInner(gs, threshold, st.i + 1,
                 [st.processed EXCEPT ![st.i + 1] = TRUE], At(gs, st.i), <<st.i>>))

MergeStart(gs) ==
    [i |-> 0, processed |-> [k \in 1..Len(gs) |-> FALSE],
     merged |-> <<>>, merged_from |-> <<>>]

RECURSIVE MergeRun(_, _, _)
MergeRun(gs, threshold, st) ==
    IF st.i >= Len(gs) THEN st
    ELSE MergeRun(gs, threshold, MergeIteration(gs, threshold, st))

MergeGroups(gs, threshold) ==
    IF Len(gs) <= 1 THEN gs
    ELSE MergeRun(gs, threshold, MergeStart(gs)).merged

(***************************************************************************)
(* GroupSuggester::RankSuggestions                                         *)
(***************************************************************************)
\* The quality score RankSuggestions gives a suggestion.
Quality(g) ==
    LET size == Len(g.page_ids) IN
      (IF size >= 2 /\ size <= 5 THEN Fx(3, 10)
       ELSE IF size > 5 /\ size <= 10 THEN Fx(2, 10)
       ELSE IF size > 10 THEN Fx(1, 10)
       ELSE 0)
    + FxMul(g.similarity_score, Fx(4, 10))
    + (IF Len(g.group_name) > 5 THEN Fx(15, 100) ELSE 0)
    + (IF " " \in Range(g.group_name) THEN Fx(1, 10) ELSE 0)
    + (IF g.description /= <<>> THEN Fx(5, 100) ELSE 0)

\* As RankSuggestions, with a group of its own for an empty list.
RankSuggestionsOrDefault(suggestions) ==
    IF suggestions = <<>>
    THEN {<<[group_name |-> <<>>, description |-> <<>>, page_ids |-> <<>>,
             similarity_score |-> 0]>>}
    ELSE LET n == Len(suggestions) IN
         {[k \in 1..n |-> suggestions[p[k]]] :
            p \in {q \in Perms(n) : \A a, b \in 1..n : a < b =>
                      Quality(suggestions[q[a]]) >= Quality(suggestions[q[b]])}}

\* std::sort by decreasing quality: suggestions of equal quality in any order.
RankSuggestionsResults(suggestions) ==
    IF suggestions = <<>> THEN {suggestions}
    ELSE LET n == Len(suggestions) IN
         {[k \in 1..n |-> suggestions[p[k]]] :
            p \in {q \in Perms(n) : \A a, b \in 1..n : a < b =>
                      Quality(suggestions[q[a]]) >= Quality(suggestions[q[b]])}}

(***************************************************************************)
(* GroupSuggester::SuggestGroupsCombined                                   *)
(***************************************************************************)
SuggestGroupsCombinedResults(pgs, threshold) ==
    IF pgs = <<>> THEN {<<>>}
    ELSE UNION {RankSuggestionsResults(
                    MergeGroups(content_groups \o domain_groups \o topic_groups,
                                Fx(5, 10))) :
                  content_groups \in SuggestByContentResults(pgs, threshold),
                  domain_groups \in SuggestByDomainResults(pgs),
                  topic_groups \in SuggestByTopicResults(pgs)}

(***************************************************************************)
(* GroupSuggester::GenerateGroupName, GenerateGroupDescription             *)
(***************************************************************************)
GenerateGroupNameResults(pgs) ==
    IF pgs = <<>> THEN {<<"E","m","p","t","y"," ","G","r","o","u","p">>}
    ELSE LET texts == [k \in 1..Len(pgs) |-> pgs[k].title \o <<" ">> \o pgs[k].text]
         IN  {IF common_words = <<>> THEN <<"U","n","n","a","m","e","d"," ","G","r","o","u","p">>
              ELSE LET name == IF Len(common_words) > 1
                               THEN common_words[1] \o <<" ">> \o common_words[2]
                               ELSE common_words[1]
                   IN  [name EXCEPT ![1] = ToUpper(@)] :
                 common_words \in FindCommonWordsResults(texts, 2)}

GenerateGroupDescriptionResults(pgs) ==
    IF pgs = <<>> THEN {<<"N","o"," ","p","a","g","e","s"," ","i","n"," ","t","h","i","s"," ","g","r","o","u","p">>}
    ELSE LET head == <<"A"," ","c","o","l","l","e","c","t","i","o","n"," ","o","f"," ">> \o to_string(Len(pgs))
                         \o <<" ","r","e","l","a","t","e","d"," ","p","a","g","e","s">>
             all_keywords == Concat([k \in 1..Len(pgs) |-> pgs[k].keywords])
         IN  IF all_keywords = <<>> THEN {head}
             ELSE {IF common = <<>> THEN head
                   ELSE head \o <<" ","a","b","o","u","t"," ">> \o JoinWith(common, <<","," ">>) :
                      common \in FindCommonWordsResults(all_keywords, 3)}

(***************************************************************************)
(* GroupSuggester::DetectClusters                                          *)
(***************************************************************************)
\* The automatic target without its upper limit of 10.
TargetClustersUncapped(num_clusters_arg, n_pages) ==
    IF num_clusters_arg = 0
    THEN Max2(2, n_pages \div 3)
    ELSE num_clusters_arg

\* The target number of clusters: num_clusters, or the automatic one for 0.
TargetClusters(num_clusters_arg, n_pages) ==
    IF num_clusters_arg = 0
    THEN Min2(Max2(2, n_pages \div 3), 10)
    ELSE num_clusters_arg

\* BuildSimilarityMatrix storing sim in [i][j] only, not in [j][i].
BuildUpperSimilarityMatrix(pgs) ==
    [r \in 1..Len(pgs) |-> [c \in 1..Len(pgs) |->
        IF r = c THEN Fx(1, 1)
        ELSE IF r < c THEN CalculateCombinedSimilarity(pgs[r].text, pgs[c].text)
        ELSE 0]]

\* similarity_matrix, a sequence of rows; entry [i][j] is At(At(m, i), j).
BuildSimilarityMatrix(pgs) ==
    [r \in 1..Len(pgs) |-> [c \in 1..Len(pgs) |->
        IF r = c THEN Fx(1, 1)
        ELSE CalculateCombinedSimilarity(pgs[Min2(r, c)].text, pgs[Max2(r, c)].text)]]

InitialClusters(pgs) == [k \in 1..Len(pgs) |-> <<k - 1>>]

\* The pairs of positions (a, b) of a member of cluster_a and one of cluster_b.
MemberPairs(cluster_a, cluster_b) == (1..Len(cluster_a)) \X (1..Len(cluster_b))

\* The sum of matrix[pi][pj] over the member pairs given.
PairSum(matrix, cluster_a, cluster_b, pairs) ==
    SumOver([p \in pairs |-> At(At(matrix, cluster_a[p[1]]), cluster_b[p[2]])],
            pairs)

\* AverageLinkage without the division by the number of member pairs.
TotalLinkage(matrix, cluster_a, cluster_b) ==
    PairSum(matrix, cluster_a, cluster_b, MemberPairs(cluster_a, cluster_b))

\* The average-linkage similarity of two clusters.
AverageLinkage(matrix, cluster_a, cluster_b) ==
    LET pairs == MemberPairs(cluster_a, cluster_b)
        avg_sim == PairSum(matrix, cluster_a, cluster_b, pairs)
        count == Cardinality(pairs)
    IN  IF count > 0 THEN avg_sim \div count ELSE avg_sim

RECURSIVE FindMergePair(_, _, _, _, _)
\* The scan for the most similar pair of clusters, from the pair (i, j) on,
\* with best = [max_sim, merge_i, merge_j] so far.
FindMergePair(matrix, clusters, i, j, best) ==
    IF i >= Len(clusters) THEN best
    ELSE IF j >= Len(clusters)
         THEN FindMergePair(matrix, clusters, i + 1, i + 2, best)
         ELSE LET avg_sim == AverageLinkage(matrix, At(clusters, i), At(clusters, j))
              IN  FindMergePair(matrix, clusters, i, j + 1,
                      IF avg_sim > best.max_sim
                      THEN [max_sim |-> avg_sim, merge_i |-> i, merge_j |-> j]
                      ELSE best)

\* MergePair erasing cluster merge_i instead of cluster merge_j.
MergePairErasingFirst(clusters, merge_i, merge_j) ==
    LET grown == [clusters EXCEPT ![merge_i + 1] = @ \o At(clusters, merge_j)]
    IN  SubSeq(grown, 1, merge_i) \o SubSeq(grown, merge_i + 2, Len(grown))

\* clusters with cluster merge_j appended to cluster merge_i and erased.
MergePair(clusters, merge_i, merge_j) ==
    LET grown == [clusters EXCEPT ![merge_i + 1] = @ \o At(clusters, merge_j)]
    IN  SubSeq(grown, 1, merge_j) \o SubSeq(grown, merge_j + 2, Len(grown))

MergeBest(clusters, best) == MergePair(clusters, best.merge_i, best.merge_j)

\* One iteration of the agglomerative loop: the clusters after the merge.
MergeClusters(matrix, clusters) ==
    MergeBest(clusters,
        FindMergePair(matrix, clusters, 0, 1,
            [max_sim |-> 0 - Fx(1, 1), merge_i |-> 0, merge_j |-> 1]))

\* MoreMerging without the target: the loop merges down to one cluster.
MoreMergingToOne(clusters, target) == Len(clusters) > 1

\* MoreMerging stopping one cluster early.
MoreMergingButOne(clusters, target) ==
    Len(clusters) > target + 1 /\ Len(clusters) > 1

\* The loop condition of the agglomerative loop.
MoreMerging(clusters, target) == Len(clusters) > target /\ Len(clusters) > 1

\* ClusterScore falling back to 0.5 for fewer than two pairs.
ClusterScoreOfTwoPairs(matrix, cluster) ==
    LET pairs == {p \in MemberPairs(cluster, cluster) :
                     cluster[p[1]] < cluster[p[2]]}
        avg_sim == PairSum(matrix, cluster, cluster, pairs)
        count == Cardinality(pairs)
    IN  IF count > 1 THEN avg_sim \div count ELSE Fx(5, 10)

\* The average similarity within a cluster.
ClusterScore(matrix, cluster) ==
    LET pairs == {p \in MemberPairs(cluster, cluster) :
                     cluster[p[1]] < cluster[p[2]]}
        avg_sim == PairSum(matrix, cluster, cluster, pairs)
        count == Cardinality(pairs)
    IN  IF count > 0 THEN avg_sim \div count ELSE Fx(5, 10)

\* The suggestions a cluster of two or more pages can become.
ClusterGroups(pgs, matrix, cluster) ==
    LET cluster_pages == [k \in 1..Len(cluster) |-> At(pgs, cluster[k])] IN
    {[group_name |-> name,
      description |-> description,
      page_ids |-> [k \in 1..Len(cluster) |-> to_string(cluster[k])],
      similarity_score |-> ClusterScore(matrix, cluster)] :
        name \in GenerateGroupNameResults(cluster_pages),
        description \in GenerateGroupDescriptionResults(cluster_pages)}

\* ClusterSuggestionsResults keeping the clusters of a single page too.
ClusterSuggestionsOfAllResults(pgs, matrix, clusters) ==
    SeqProduct([k \in 1..Len(clusters) |-> ClusterGroups(pgs, matrix, clusters[k])])

\* The conversion of the final clusters, before ranking.
ClusterSuggestionsResults(pgs, matrix, clusters) ==
    LET kept == SelectSeq(clusters, LAMBDA c : ~(Len(c) < 2)) IN
    SeqProduct([k \in 1..Len(kept) |-> ClusterGroups(pgs, matrix, kept[k])])


(***************************************************************************)
(* IEEE 754 arithmetic of the types double and float, round to nearest,    *)
(* ties to even, on the non-negative finite values the scores take.        *)
(* A natural number of any size is the sequence of its digits to the base  *)
(* Base, least significant first, without a leading zero digit; a floating *)
(* point value is [m, e] for m * 2^e, m of exactly the digits of its type, *)
(* or Zero.                                                                *)
(***************************************************************************)
Base == 2^15
DoubleDigits == 53
FloatDigits == 24

\* a without its leading zero digits.
Trim(a) ==
    SubSeq(a, 1, Max2(0, CHOOSE n \in 0..Len(a) :
                             /\ n = 0 \/ a[n] # 0
                             /\ \A k \in (n + 1)..Len(a) : a[k] = 0))

Digit(a, k) == IF k <= Len(a) THEN a[k] ELSE 0

RECURSIVE BigOfNat(_)
BigOfNat(n) == IF n = 0 THEN <<>> ELSE <<n % Base>> \o BigOfNat(n \div Base)

\* Whether the addition of a and b carries into digit k.
Carry(a, b, k) ==
    \E j \in 1..(k - 1) :
        /\ Digit(a, j) + Digit(b, j) >= Base
        /\ \A i \in (j + 1)..(k - 1) : Digit(a, i) + Digit(b, i) = Base - 1

BigAdd(a, b) ==
    Trim([k \in 1..(Max2(Len(a), Len(b)) + 1) |->
             (Digit(a, k) + Digit(b, k) + (IF Carry(a, b, k) THEN 1 ELSE 0))
             % Base])

\* Whether the subtraction of b from a borrows from digit k.
Borrow(a, b, k) ==
    \E j \in 1..(k - 1) :
        /\ Digit(a, j) < Digit(b, j)
        /\ \A i \in (j + 1)..(k - 1) : Digit(a, i) = Digit(b, i)

\* a - b, for a >= b.
BigSub(a, b) ==
    Trim([k \in 1..Len(a) |->
             (a[k] - Digit(b, k) - (IF Borrow(a, b, k) THEN 1 ELSE 0) + Base)
             % Base])

\* -1, 0 or 1 as a is below, equal to or above b.
BigCmp(a, b) ==
    IF Len(a) # Len(b) THEN (IF Len(a) < Len(b) THEN 0 - 1 ELSE 1)
    ELSE LET differing == {k \in 1..Len(a) : a[k] # b[k]} IN
         IF differing = {} THEN 0
         ELSE LET top == CHOOSE k \in differing : \A j \in differing : j <= k
              IN  IF a[top] < b[top] THEN 0 - 1 ELSE 1

\* a * d for one digit d.
BigMulDigit(a, d) ==
    BigAdd([k \in 1..Len(a) |-> (a[k] * d) % Base],
           <<0>> \o [k \in 1..Len(a) |-> (a[k] * d) \div Base])

\* a * Base^n.
ShiftDigits(a, n) == IF a = <<>> THEN <<>> ELSE [k \in 1..n |-> 0] \o a

RECURSIVE BigMul(_, _)
BigMul(a, b) ==
    IF b = <<>> THEN <<>>
    ELSE BigAdd(BigMulDigit(a, Head(b)), ShiftDigits(BigMul(a, Tail(b)), 1))

\* a * 2^bits.
BigShl(a, bits) == ShiftDigits(BigMulDigit(a, 2^(bits % 15)), bits \div 15)

\* a \div 2^bits.
BigShr(a, bits) ==
    LET drop == bits \div 15
        r == bits % 15
    IN  Trim([k \in 1..(Len(a) - drop) |->
                 (a[k + drop] \div 2^r)
                 + (Digit(a, k + drop + 1) % 2^r) * 2^(15 - r)])

\* a % 2^bits.
BigLow(a, bits) ==
    LET keep == bits \div 15
        r == bits % 15
    IN  Trim([k \in 1..Min2(Len(a), keep + 1) |->
                 IF k <= keep THEN a[k] ELSE a[k] % 2^r])

\* The number of binary digits of the digit d > 0, and of a.
DigitBits(d) == CHOOSE n \in 1..15 : 2^(n - 1) <= d /\ d < 2^n
BigBits(a) ==
    IF a = <<>> THEN 0 ELSE 15 * (Len(a) - 1) + DigitBits(a[Len(a)])

\* The digit q with q * d <= r < (q + 1) * d, for r < d * Base and d with a
\* leading digit of Base / 2 or more, which puts q within the three digits
\* below the quotient q_hat of the leading digits.
QuotientDigitFrom(r, d, q_hat) ==
    CHOOSE q \in {q_hat, Max2(q_hat - 1, 0), Max2(q_hat - 2, 0)} :
        /\ BigCmp(BigMulDigit(d, q), r) <= 0
        /\ q = q_hat \/ BigCmp(BigMulDigit(d, q + 1), r) > 0

QuotientDigit(r, d) ==
    QuotientDigitFrom(r, d,
        Min2(Base - 1,
             (Digit(r, Len(d) + 1) * Base + Digit(r, Len(d))) \div d[Len(d)]))

RECURSIVE DivDigits(_, _, _, _)
\* Long division of the digits k, k-1, .., 1 of a by d, with r carried in:
\* [q, r], q the k quotient digits.
DivDigits(a, d, k, r) ==
    IF k = 0 THEN [q |-> <<>>, r |-> r]
    ELSE LET cur == Trim(<<a[k]>> \o r)
             digit == QuotientDigit(cur, d)
             rest == DivDigits(a, d, k - 1, BigSub(cur, BigMulDigit(d, digit)))
         IN  [q |-> Append(rest.q, digit), r |-> rest.r]

\* The division of a by d with a leading digit of Base / 2 or more.
DivNormalized(a, d) ==
    LET high == Min2(Len(a), Len(d) - 1)
    IN  DivDigits(a, d, Len(a) - high,
                  Trim(SubSeq(a, Len(a) - high + 1, Len(a))))

\* [q, r] with a = q * d + r and r < d, for d > 0.
BigDivMod(a, d) ==
    LET shift == 15 - DigitBits(d[Len(d)])
        res == DivNormalized(BigShl(a, shift), BigShl(d, shift))
    IN  [q |-> Trim(res.q), r |-> BigShr(res.r, shift)]

RECURSIVE NatSqrt(_, _, _)
\* The largest s in lo..hi with s * s <= n.
NatSqrt(n, lo, hi) ==
    IF lo = hi THEN lo
    ELSE IF ((lo + hi + 1) \div 2) * ((lo + hi + 1) \div 2) <= n
         THEN NatSqrt(n, (lo + hi + 1) \div 2, hi)
         ELSE NatSqrt(n, lo, (lo + hi + 1) \div 2 - 1)

RECURSIVE SqrtNewton(_, _)
\* Newton's iteration for the integer square root of a, from x above it.
SqrtNewton(a, x) ==
    LET y == BigShr(BigAdd(x, BigDivMod(a, x).q), 1)
    IN  IF BigCmp(y, x) < 0 THEN SqrtNewton(a, y) ELSE x

\* The square root of a from that of its leading digits, cut bits cut off.
SqrtFromLeading(a, leading, cut) ==
    SqrtNewton(a, BigShl(BigOfNat(NatSqrt(Digit(leading, 1)
                                          + Digit(leading, 2) * Base,
                                          0, Base - 1) + 1),
                         cut \div 2))

\* The largest s with s * s <= a.
BigSqrt(a) ==
    LET cut == 2 * (Max2(0, BigBits(a) - 29) \div 2)
    IN  IF a = <<>> THEN <<>> ELSE SqrtFromLeading(a, BigShr(a, cut), cut)

Zero == [m |-> <<>>, e |-> 0]

\* n * 2^e, made larger by less than 2^e where inexact, rounded to p digits.
RoundTo(p, n, e, inexact) ==
    LET cut == BigBits(n) - p IN
    IF n = <<>> THEN Zero
    ELSE IF cut <= 0 THEN [m |-> BigShl(n, 0 - cut), e |-> e + cut]
    ELSE LET q == BigShr(n, cut)
             c == BigCmp(BigLow(n, cut), BigShl(<<1>>, cut - 1))
             up == c > 0 \/ (c = 0 /\ (inexact \/ q[1] % 2 = 1))
             q1 == IF up THEN BigAdd(q, <<1>>) ELSE q
         IN  IF BigBits(q1) > p THEN [m |-> BigShr(q1, 1), e |-> e + cut + 1]
             ELSE [m |-> q1, e |-> e + cut]

OfNat(p, n) == RoundTo(p, BigOfNat(n), 0, FALSE)

FpAdd(p, x, y) ==
    LET lo == Min2(x.e, y.e) IN
    IF x = Zero THEN y
    ELSE IF y = Zero THEN x
    ELSE RoundTo(p, BigAdd(BigShl(x.m, x.e - lo), BigShl(y.m, y.e - lo)),
                 lo, FALSE)

FpMul(p, x, y) ==
    IF x = Zero \/ y = Zero THEN Zero
    ELSE RoundTo(p, BigMul(x.m, y.m), x.e + y.e, FALSE)

FpDivOf(p, x, y, qr) == RoundTo(p, qr.q, x.e - y.e - (p + 2), qr.r # <<>>)

\* x / y for y above zero.
FpDiv(p, x, y) ==
    IF x = Zero THEN Zero
    ELSE FpDivOf(p, x, y, BigDivMod(BigShl(x.m, p + 2), y.m))

FpSqrtOf(p, n, e, s) == RoundTo(p, s, e \div 2, BigMul(s, s) # n)

FpSqrtFrom(p, n, e) == FpSqrtOf(p, n, e, BigSqrt(n))

FpSqrt(p, x) ==
    IF x = Zero THEN Zero
    ELSE FpSqrtFrom(p, BigShl(x.m, p + 2 + ((x.e - p) % 2)),
                    x.e - (p + 2 + ((x.e - p) % 2)))

\* The value of another type converted to the type of p digits.
FpCast(p, x) == RoundTo(p, x.m, x.e, FALSE)

\* -1, 0 or 1 as x is below, equal to or above y.
FpCmp(x, y) ==
    LET lo == Min2(x.e, y.e) IN
    IF x = Zero THEN (IF y = Zero THEN 0 ELSE 0 - 1)
    ELSE IF y = Zero THEN 1
    ELSE IF x.e + BigBits(x.m) # y.e + BigBits(y.m)
         THEN (IF x.e + BigBits(x.m) < y.e + BigBits(y.m) THEN 0 - 1 ELSE 1)
    ELSE BigCmp(BigShl(x.m, x.e - lo), BigShl(y.m, y.e - lo))

\* The double nearest to num / den, as a decimal literal is read.
Dbl(num, den) ==
    FpDiv(DoubleDigits, OfNat(DoubleDigits, num), OfNat(DoubleDigits, den))
\* The float nearest to num / den.
Flt(num, den) ==
    FpDiv(FloatDigits, OfNat(FloatDigits, num), OfNat(FloatDigits, den))

(***************************************************************************)
(* SimilarityCalculator, its scores as the doubles the code computes       *)
(***************************************************************************)
DoubleOne == OfNat(DoubleDigits, 1)

\* The orders in which the iteration of a hash container can hand out s.
RECURSIVE Orders(_)
Orders(s) ==
    IF s = {} THEN {<<>>}
    ELSE UNION {{<<x>> \o order : order \in Orders(s \ {x})} : x \in s}

RECURSIVE SumDoubles(_)
\* sum = 0.0; sum += values[1]; sum += values[2]; ...
SumDoubles(values) ==
    IF values = <<>> THEN Zero
    ELSE FpAdd(DoubleDigits, SumDoubles(SubSeq(values, 1, Len(values) - 1)),
               values[Len(values)])

\* tf[term] of CalculateTermFrequency: the count, divided by doc_length.
TermFrequency(tf, term) ==
    IF term \in DOMAIN tf
    THEN FpDiv(DoubleDigits, OfNat(DoubleDigits, tf[term].count),
               OfNat(DoubleDigits, tf[term].len))
    ELSE Zero

\* What the loop over all_terms adds to its three sums for one term.
ProductsOf(term, val_a, val_b) ==
    [term |-> term,
     dot_product |-> FpMul(DoubleDigits, val_a, val_b),
     magnitude_a |-> FpMul(DoubleDigits, val_a, val_a),
     magnitude_b |-> FpMul(DoubleDigits, val_b, val_b)]

TermProducts(tf_a, tf_b) ==
    {ProductsOf(term, TermFrequency(tf_a, term), TermFrequency(tf_b, term)) :
        term \in DOMAIN tf_a \cup DOMAIN tf_b}

\* dot_product, magnitude_a and magnitude_b after the loop over all_terms
\* taken in the order given.
CosineSums(order) ==
    [dot_product |->
         SumDoubles([k \in 1..Len(order) |-> order[k].dot_product]),
     magnitude_a |->
         SumDoubles([k \in 1..Len(order) |-> order[k].magnitude_a]),
     magnitude_b |->
         SumDoubles([k \in 1..Len(order) |-> order[k].magnitude_b])]

CosineOfMagnitudes(dot_product, magnitude_a, magnitude_b) ==
    IF magnitude_a = Zero \/ magnitude_b = Zero THEN Zero
    ELSE FpDiv(DoubleDigits, dot_product,
               FpMul(DoubleDigits, magnitude_a, magnitude_b))

CosineOfSums(sums) ==
    CosineOfMagnitudes(sums.dot_product,
                       FpSqrt(DoubleDigits, sums.magnitude_a),
                       FpSqrt(DoubleDigits, sums.magnitude_b))

\* The doubles CalculateCosineSimilarity can return on two token lists, one
\* for each order of iteration of all_terms that makes a difference.
CosineOfTokensResults(tokens_a, tokens_b) ==
    IF tokens_a = <<>> \/ tokens_b = <<>> THEN {Zero}
    ELSE {CosineOfSums(sums) :
             sums \in {CosineSums(order) :
                          order \in Orders(TermProducts(
                                        CalculateTermFrequency(tokens_a),
                                        CalculateTermFrequency(tokens_b)))}}

CosineSimilarityResults(text_a, text_b) ==
    CosineOfTokensResults(Tokenize(text_a), Tokenize(text_b))

\* JaccardSimilarity counting the entries of the lists, duplicates included.
JaccardSimilarityOfLists(keywords_a, keywords_b) ==
    IF keywords_a = <<>> /\ keywords_b = <<>> THEN DoubleOne
    ELSE IF keywords_a = <<>> \/ keywords_b = <<>> THEN Zero
    ELSE FpDiv(DoubleDigits,
               OfNat(DoubleDigits,
                     Cardinality({k \in 1..Len(keywords_a) :
                                     keywords_a[k] \in Range(keywords_b)})),
               OfNat(DoubleDigits,
                     Len(keywords_a) + Len(keywords_b)
                     - Cardinality({k \in 1..Len(keywords_a) :
                                       keywords_a[k] \in Range(keywords_b)})))

\* The double CalculateJaccardSimilarity returns.
JaccardSimilarity(keywords_a, keywords_b) ==
    IF keywords_a = <<>> /\ keywords_b = <<>> THEN DoubleOne
    ELSE IF keywords_a = <<>> \/ keywords_b = <<>> THEN Zero
    ELSE FpDiv(DoubleDigits,
               OfNat(DoubleDigits,
                     Cardinality(Range(keywords_a) \cap Range(keywords_b))),
               OfNat(DoubleDigits,
                     Cardinality(Range(keywords_a) \cup Range(keywords_b))))

\* NGramSimilarityOf giving 0 to two empty lists of n-grams as well.
NGramSimilarityOfSome(ngrams_a, ngrams_b) ==
    IF ngrams_a = <<>> \/ ngrams_b = <<>> THEN Zero
    ELSE FpDiv(DoubleDigits,
               OfNat(DoubleDigits,
                     Cardinality(Range(ngrams_a) \cap Range(ngrams_b))),
               OfNat(DoubleDigits,
                     Cardinality(Range(ngrams_a) \cup Range(ngrams_b))))

\* The double CalculateNGramSimilarity returns on two lists of n-grams.
NGramSimilarityOf(ngrams_a, ngrams_b) ==
    IF ngrams_a = <<>> /\ ngrams_b = <<>> THEN DoubleOne
    ELSE IF ngrams_a = <<>> \/ ngrams_b = <<>> THEN Zero
    ELSE FpDiv(DoubleDigits,
               OfNat(DoubleDigits,
                     Cardinality(Range(ngrams_a) \cap Range(ngrams_b))),
               OfNat(DoubleDigits,
                     Cardinality(Range(ngrams_a) \cup Range(ngrams_b))))

NGramSimilarity(text_a, text_b, n) ==
    NGramSimilarityOf(CalculateNGrams(text_a, n), CalculateNGrams(text_b, n))

\* 0.5 * cosine_sim + 0.3 * bigram_sim + 0.2 * trigram_sim.
CombinedOf(cosine_sim, bigram_sim, trigram_sim) ==
    FpAdd(DoubleDigits,
          FpAdd(DoubleDigits,
                FpMul(DoubleDigits, Dbl(5, 10), cosine_sim),
                FpMul(DoubleDigits, Dbl(3, 10), bigram_sim)),
          FpMul(DoubleDigits, Dbl(2, 10), trigram_sim))

\* The doubles CalculateCombinedSimilarity can return.
CombinedSimilarityResults(text_a, text_b) ==
    {CombinedOf(cosine_sim, NGramSimilarity(text_a, text_b, 2),
                NGramSimilarity(text_a, text_b, 3)) :
        cosine_sim \in CosineSimilarityResults(text_a, text_b)}

\* The smaller and the larger of two doubles, as std::min and std::max.
FpMin(x, y) == IF FpCmp(y, x) < 0 THEN y ELSE x
FpMax(x, y) == IF FpCmp(x, y) < 0 THEN y ELSE x

\* reading_time_sim of CalculateSummarySimilarity.
ReadingTimeSimilarity(minutes_a, minutes_b) ==
    IF minutes_a > 0 /\ minutes_b > 0
    THEN FpMul(DoubleDigits,
               FpDiv(DoubleDigits,
                     FpMin(OfNat(DoubleDigits, minutes_a),
                           OfNat(DoubleDigits, minutes_b)),
                     FpMax(OfNat(DoubleDigits, minutes_a),
                           OfNat(DoubleDigits, minutes_b))),
               Dbl(5, 100))
    ELSE Zero

\* similarity of CalculateSummarySimilarity before it is clamped.
SummaryWeighted(text_sim, keypoints_sim, type_bonus, lang_bonus, reading_time_sim) ==
    FpAdd(DoubleDigits,
          FpAdd(DoubleDigits,
                FpAdd(DoubleDigits,
                      FpAdd(DoubleDigits,
                            FpMul(DoubleDigits, Dbl(55, 100), text_sim),
                            FpMul(DoubleDigits, Dbl(25, 100), keypoints_sim)),
                      type_bonus),
                lang_bonus),
          reading_time_sim)

\* std::min(1.0, std::max(0.0, similarity)).
SummaryClamped(similarity) == FpMin(DoubleOne, FpMax(Zero, similarity))

\* The doubles CalculateSummarySimilarity can return.
SummarySimilarityResults(a, b) ==
    {SummaryClamped(SummaryWeighted(
         text_sim,
         JaccardSimilarity(a.key_points, b.key_points),
         IF a.content_type = b.content_type THEN Dbl(1, 10) ELSE Zero,
         IF a.language = b.language THEN Dbl(5, 100) ELSE Zero,
         ReadingTimeSimilarity(a.reading_time_minutes,
                               b.reading_time_minutes))) :
        text_sim \in CosineSimilarityResults(a.summary_text, b.summary_text)}

(***************************************************************************)
(* SimilarityCalculator::FindSimilarDocuments                              *)
(***************************************************************************)
\* results after the loop: (i, similarity) in corpus order for every document
\* with similarity >= threshold, similarities[i + 1] the cosine of document i.
SimilarPushed(similarities, threshold) ==
    LET kept == SelectSeq([k \in 1..Len(similarities) |-> k],
                          LAMBDA k : FpCmp(similarities[k], threshold) >= 0)
    IN  [j \in 1..Len(kept) |->
            [first |-> kept[j] - 1, second |-> similarities[kept[j]]]]

\* std::sort with a.second > b.second: the results by decreasing similarity,
\* those of equal similarity in any order.
SortedBySimilarity(results) ==
    LET n == Len(results) IN
      {[k \in 1..n |-> results[p[k]]] :
         p \in {q \in Perms(n) : \A a, b \in 1..n : a < b =>
                  FpCmp(results[q[a]].second, results[q[b]].second) >= 0}}

\* The vectors FindSimilarDocuments can return.
FindSimilarDocumentsResults(query, corpus, threshold) ==
    UNION {SortedBySimilarity(SimilarPushed(similarities, threshold)) :
             similarities \in SeqProduct(
                 [k \in 1..Len(corpus) |->
                     CosineSimilarityResults(query, corpus[k])])}

(***************************************************************************)
(* GroupSuggester::GenerateCrossRecommendations                            *)
(***************************************************************************)
\* Every ordered pair of two distinct positions of n pages.
PagePairsBothWays(n) ==
    Concat([i \in 1..n |->
               SelectSeq([k \in 1..n |-> <<i - 1, k - 1>>],
                         LAMBDA pair : pair[1] /= pair[2])])

\* The pairs (i, j) the two loops visit over n pages, in the order visited.
PagePairs(n) ==
    Concat([i \in 1..n |-> [k \in 1..(n - i) |-> <<i - 1, i - 1 + k>>]])

\* relevance from the similarity of the texts alone.
RelevanceOfTextsOnly(text_sim, keyword_sim) ==
    FpCast(FloatDigits, FpMul(DoubleDigits, Dbl(6, 10), text_sim))

\* relevance: static_cast<float>(0.6 * text_sim + 0.4 * keyword_sim).
Relevance(text_sim, keyword_sim) ==
    FpCast(FloatDigits,
           FpAdd(DoubleDigits,
                 FpMul(DoubleDigits, Dbl(6, 10), text_sim),
                 FpMul(DoubleDigits, Dbl(4, 10), keyword_sim)))

\* The values relevance can take for the pages page_i and page_j.
RelevanceResults(page_i, page_j) ==
    {Relevance(text_sim, JaccardSimilarity(page_i.keywords, page_j.keywords)) :
        text_sim \in CombinedSimilarityResults(page_i.text, page_j.text)}

\* rec.common_topics: kw_i once for every equal kw_j, in the order of the loops.
CommonTopics(keywords_i, keywords_j) ==
    Concat([a \in 1..Len(keywords_i) |->
               SelectSeq(keywords_j, LAMBDA kw_j : keywords_i[a] = kw_j)])

\* RecommendationReason testing the relevance before the common topics.
RecommendationReasonByRelevance(common_topics, relevance) ==
    IF FpCmp(relevance, Flt(7, 10)) > 0 THEN <<"H","i","g","h","l","y"," ","s","i","m","i","l","a","r"," ","c","o","n","t","e","n","t">>
    ELSE IF common_topics /= <<>>
    THEN <<"B","o","t","h"," ","p","a","g","e","s"," ","d","i","s","c","u","s","s",":"," ">> \o common_topics[1]
    ELSE <<"R","e","l","a","t","e","d"," ","c","o","n","t","e","n","t">>

\* rec.reason.
RecommendationReason(common_topics, relevance) ==
    IF common_topics /= <<>>
    THEN <<"B","o","t","h"," ","p","a","g","e","s"," ","d","i","s","c","u","s","s",":"," ">> \o common_topics[1]
         \o (IF Len(common_topics) > 1
             THEN <<" ","a","n","d"," ">> \o to_string(Len(common_topics) - 1)
                  \o <<" ","m","o","r","e"," ","t","o","p","i","c","s">>
             ELSE <<>>)
    ELSE IF FpCmp(relevance, Flt(7, 10)) > 0 THEN <<"H","i","g","h","l","y"," ","s","i","m","i","l","a","r"," ","c","o","n","t","e","n","t">>
    ELSE <<"R","e","l","a","t","e","d"," ","c","o","n","t","e","n","t">>

\* rec, for pages i and j of relevance `relevance`.
Recommendation(pgs, i, j, relevance) ==
    LET common_topics == CommonTopics(At(pgs, i).keywords, At(pgs, j).keywords)
    IN  [source_id |-> to_string(i),
         target_id |-> to_string(j),
         relevance_score |-> relevance,
         common_topics |-> common_topics,
         reason |-> RecommendationReason(common_topics, relevance)]

\* recommendations after the loops, relevances[k] the relevance of pairs[k].
RecommendationsPushed(pgs, pairs, relevances, min_relevance) ==
    LET kept == SelectSeq([k \in 1..Len(pairs) |-> k],
                          LAMBDA k : FpCmp(relevances[k], min_relevance) >= 0)
    IN  [m \in 1..Len(kept) |->
            Recommendation(pgs, pairs[kept[m]][1], pairs[kept[m]][2],
                           relevances[kept[m]])]

\* std::sort with a.relevance_score > b.relevance_score: by decreasing
\* relevance, recommendations of equal relevance in any order.
SortedByRelevance(recommendations) ==
    LET n == Len(recommendations) IN
      {[k \in 1..n |-> recommendations[p[k]]] :
         p \in {q \in Perms(n) : \A a, b \in 1..n : a < b =>
                  FpCmp(recommendations[q[a]].relevance_score,
                        recommendations[q[b]].relevance_score) >= 0}}

\* The vectors GenerateCrossRecommendations can return.
GenerateCrossRecommendationsResults(pgs, min_relevance) ==
    IF Len(pgs) < 2 THEN {<<>>}
    ELSE LET pairs == PagePairs(Len(pgs)) IN
         UNION {SortedByRelevance(
                    RecommendationsPushed(pgs, pairs, relevances, min_relevance)) :
                  relevances \in SeqProduct(
                      [k \in 1..Len(pairs) |->
                          RelevanceResults(At(pgs, pairs[k][1]),
                                           At(pgs, pairs[k][2]))])}

(***************************************************************************)
(* ContentAnalyzer::Impl::SplitIntoSentences                               *)
(***************************************************************************)
\* The characters find_last_of(" \t\n") looks for.
WordBreaks == {" ", "\t", "\n"}

\* The characters the trimming of a sentence skips.
TrimmedChars == {" ", "\t", "\n", "\r"}

RECURSIVE IsAbbreviation(_, _)
\* is_abbreviation at the '.' at position i (1-based): a word break within
\* the last three characters of current_sentence before the '.', the
\* sentence running since the last ending.  IsSentenceEnd(text, s) inlined.
IsAbbreviation(text, i) ==
    /\ text[i] = "." /\ i > 1
    /\ \E q \in Max2(1, i - 3)..(i - 1) :
          /\ text[q] \in WordBreaks
          /\ \A s \in (q + 1)..(i - 1) :
                ~(text[s] \in {".", "!", "?"} /\ ~IsAbbreviation(text, s))

\* The sentence is cut after the character at position i.
IsSentenceEnd(text, i) ==
    text[i] \in {".", "!", "?"} /\ ~IsAbbreviation(text, i)

\* The positions after which current_sentence is cleared, in increasing order.
SentenceEnds(text) ==
    LET ends == {i \in 1..Len(text) : IsSentenceEnd(text, i)}
    IN  [k \in 1..Cardinality(ends) |->
            CHOOSE i \in ends : Cardinality({j \in ends : j < i}) = k - 1]

\* The values of current_sentence at the cuts, and what remains at the end.
SentencePieces(text) ==
    LET ends == SentenceEnds(text)
        n == Len(ends)
        last == IF n = 0 THEN 0 ELSE ends[n]
        cut == [k \in 1..n |->
                   SubSeq(text, (IF k = 1 THEN 0 ELSE ends[k - 1]) + 1, ends[k])]
    IN  IF last < Len(text) THEN Append(cut, SubSeq(text, last + 1, Len(text)))
        ELSE cut

\* trimmed, empty when the piece has nothing but trimmed characters.
Trimmed(piece) ==
    LET kept == {k \in 1..Len(piece) : piece[k] \notin TrimmedChars}
    IN  IF kept = {} THEN <<>>
        ELSE SubSeq(piece, CHOOSE k \in kept : \A j \in kept : k <= j,
                           CHOOSE k \in kept : \A j \in kept : k >= j)

\* The sentences of the text: the trimmed pieces of more than 10 characters.
SplitIntoSentences(text) ==
    LET pieces == SentencePieces(text)
    IN  SelectSeq([k \in 1..Len(pieces) |-> Trimmed(pieces[k])],
                  LAMBDA trimmed : Len(trimmed) > 10)

(***************************************************************************)
(* ContentAnalyzer::Impl::Tokenize, CalculateWordFrequency, ScoreSentence  *)
(***************************************************************************)
\* The words of the text, runs of alphanumeric characters in lower case,
\* that pass the filter of the tokens.
AnalyzerTokenize(text) ==
    LET starts == {k \in 1..Len(text) :
                      IsAlnum(text[k]) /\ (k = 1 \/ ~IsAlnum(text[k - 1]))}
        start_of == [w \in 1..Cardinality(starts) |->
                        CHOOSE k \in starts :
                            Cardinality({j \in starts : j < k}) = w - 1]
        end_of == [w \in 1..Cardinality(starts) |->
                      CHOOSE k \in start_of[w]..Len(text) :
                          /\ \A j \in start_of[w]..k : IsAlnum(text[j])
                          /\ (k = Len(text) \/ ~IsAlnum(text[k + 1]))]
        words == [w \in 1..Cardinality(starts) |->
                     [j \in 1..(end_of[w] - start_of[w] + 1) |->
                         ToLower(text[start_of[w] + j - 1])]]
    IN  SelectSeq(words, KeepToken)

\* freq[token] of CalculateWordFrequency.
WordFrequency(tokens, token) == Occurrences(tokens, token)

\* max_freq of GenerateSummary.
MaxFrequency(all_tokens) ==
    IF all_tokens = <<>> THEN 1
    ELSE CHOOSE f \in {WordFrequency(all_tokens, t) : t \in Range(all_tokens)} :
             \A t \in Range(all_tokens) : WordFrequency(all_tokens, t) <= f

\* ScoreSentence, word_freq counting all_tokens.
ScoreSentence(sentence, all_tokens, max_freq) ==
    LET tokens == AnalyzerTokenize(sentence)
        score == SumDoubles(
            [k \in 1..Len(SelectSeq(tokens, LAMBDA t : t \in Range(all_tokens))) |->
                FpDiv(DoubleDigits,
                      OfNat(DoubleDigits,
                            WordFrequency(all_tokens,
                                SelectSeq(tokens,
                                          LAMBDA t : t \in Range(all_tokens))[k])),
                      OfNat(DoubleDigits, max_freq))])
        length_factor == IF Len(tokens) < 5 THEN Dbl(5, 10)
                         ELSE IF Len(tokens) > 30 THEN Dbl(7, 10)
                         ELSE DoubleOne
    IN  IF tokens = <<>> THEN Zero
        ELSE FpMul(DoubleDigits,
                   FpDiv(DoubleDigits, score, OfNat(DoubleDigits, Len(tokens))),
                   length_factor)

(***************************************************************************)
(* ContentAnalyzer::GenerateSummary                                        *)
(***************************************************************************)
\* The score of sentence i (0-based) in scored_sentences.
BoostedScore(sentences, i, all_tokens, max_freq) ==
    LET score == ScoreSentence(At(sentences, i), all_tokens, max_freq)
    IN  IF i < 3 THEN FpMul(DoubleDigits, score, Dbl(12, 10)) ELSE score

\* std::sort with a.first > b.first: the indices of the sentences by
\* decreasing score, those of equal score in any order.
SortedByScore(scores) ==
    LET n == Len(scores) IN
      {[k \in 1..n |-> p[k] - 1] :
         p \in {q \in Perms(n) : \A a, b \in 1..n : a < b =>
                  FpCmp(scores[q[a]], scores[q[b]]) >= 0}}

\* selected_indices: the first max_sentences of the order, as they come.
SelectedIndicesByScore(order, max_sentences) ==
    SubSeq(order, 1, Min2(max_sentences, Len(order)))

\* selected_indices: the first max_sentences of the order, then sorted.
SelectedIndices(order, max_sentences) ==
    AscendingSeq(Range(SubSeq(order, 1, Min2(max_sentences, Len(order)))))

\* The sentences joined by single spaces.
JoinSentences(sentences) ==
    IF sentences = <<>> THEN <<>> ELSE JoinWith(sentences, <<" ">>)

\* No sentence found: nothing is returned.
NoSummaryWithoutSentences(text) == <<>>

\* No sentence found: the text, cut after 200 characters.
TruncatedText(text) ==
    IF Len(text) <= 200 THEN text
    ELSE SubSeq(text, 1, 200) \o <<".", ".", ".">>

\* The strings GenerateSummary can return.
GenerateSummaryResults(text, max_sentences) ==
    LET sentences == SplitIntoSentences(text) IN
    IF text = <<>> THEN {<<>>}
    ELSE IF sentences = <<>>
    THEN {TruncatedText(text)}
    ELSE IF Len(sentences) <= max_sentences THEN {JoinSentences(sentences)}
    ELSE LET all_tokens == AnalyzerTokenize(text)
             max_freq == MaxFrequency(all_tokens)
             scores == [k \in 1..Len(sentences) |->
                           BoostedScore(sentences, k - 1, all_tokens, max_freq)]
         IN  {JoinSentences(
                  [m \in 1..Len(SelectedIndices(order, max_sentences)) |->
                      At(sentences, SelectedIndices(order, max_sentences)[m])]) :
                order \in SortedByScore(scores)}

(***************************************************************************)
(* ContentAnalyzer::ExtractKeyPoints                                       *)
(***************************************************************************)
\* A key point: the sentence, cut to 147 characters and "..." if it has more
\* than 150.
KeyPoint(sentence) ==
    IF Len(sentence) > 150
    THEN SubSeq(sentence, 1, 147) \o <<".", ".", ".">>
    ELSE sentence

\* The first max_points sentences of the order, as key points.
KeyPointsInOrder(sentences, order, max_points) ==
    [m \in 1..Min2(max_points, Len(order)) |-> KeyPoint(At(sentences, order[m]))]

\* The lists ExtractKeyPoints can return.
ExtractKeyPointsResults(text, max_points) ==
    LET sentences == SplitIntoSentences(text) IN
    IF text = <<>> \/ sentences = <<>> THEN {<<>>}
    ELSE LET all_tokens == AnalyzerTokenize(text)
             max_freq == MaxFrequency(all_tokens)
             scores == [k \in 1..Len(sentences) |->
                           ScoreSentence(sentences[k], all_tokens, max_freq)]
         IN  {KeyPointsInOrder(sentences, order, max_points) :
                order \in SortedByScore(scores)}
(***************************************************************************)
(* Inputs                                                                  *)
(***************************************************************************)
MaxPages == 4
MaxGroups == 3

Page(title, text, keywords, links) ==
    [title |-> title, text |-> text, keywords |-> keywords, links |-> links]

RustCodePage ==
    Page(<<"R","u","s","t"," ","c","o","d","e">>, <<"r","u","s","t"," ","c","o","d","e">>,
         <<<<"c","o","d","e">>, <<"r","u","s","t">>>>, <<<<"h","t","t","p",":","/","/","d","e","v",".","i","o","/","r","u","s","t">>>>)
RustPage ==
    Page(<<"R","u","s","t">>, <<"R","u","s","t","!">>, <<<<"r","u","s","t">>>>, <<<<"h","t","t","p","s",":","/","/","d","e","v",".","i","o","/">>, <<"x">>>>)
CodePage ==
    Page(<<"C","o","d","e">>, <<"t","h","e"," ","c","o","d","e">>, <<<<"c","o","d","e">>, <<"c","o","d","e">>>>, <<>>)
MoreRustPage ==
    Page(<<"M","o","r","e"," ","r","u","s","t">>, <<"r","u","s","t"," ","r","u","s","t"," ","c","o","d","e">>,
         <<<<"r","u","s","t">>, <<"c","o","d","e">>>>, <<<<"s","e","e"," ","d","e","v",".","i","o">>>>)
EmptyPage == Page(<<>>, <<>>, <<>>, <<>>)

\* The pages a batch is drawn from, and those a batch to cluster is drawn from.
PagePool == {RustCodePage, RustPage, CodePage, MoreRustPage, EmptyPage}
ClusterPool == {RustCodePage, CodePage, MoreRustPage, EmptyPage}

\* The two pages of the documented example of SuggestByContent.
CatsPage ==
    Page(<<"C","a","t","s">>, <<"C","a","t","s"," ","a","r","e"," ","g","r","e","a","t"," ","p","e","t","s","."," ","C","a","t","s"," ","l","o","v","e"," ","t","o"," ","s","l","e","e","p",".">>,
         <<<<"p","e","t","s">>, <<"c","a","t","s">>>>, <<<<"h","t","t","p","s",":","/","/","p","e","t","s",".","o","r","g","/","c","a","t","s">>>>)
DogsPage ==
    Page(<<"D","o","g","s">>, <<"D","o","g","s"," ","a","r","e"," ","g","r","e","a","t"," ","p","e","t","s","."," ","D","o","g","s"," ","l","o","v","e"," ","t","o"," ","p","l","a","y",".">>,
         <<<<"p","e","t","s">>, <<"d","o","g","s">>>>, <<<<"h","t","t","p","s",":","/","/","p","e","t","s",".","o","r","g","/","d","o","g","s">>>>)
ExampleBatches == {<<CatsPage, DogsPage>>, <<DogsPage, CatsPage>>}

Batches == UNION {[1..n -> PagePool] : n \in 0..MaxPages}
ClusterBatches == UNION {[1..n -> ClusterPool] : n \in 0..MaxPages}

ContentThresholds == {Fx(3, 10), Fx(6, 10)}
ClusterCounts == 0..MaxPages

Group(name, description, page_ids, score) ==
    [group_name |-> name, description |-> description,
     page_ids |-> page_ids, similarity_score |-> score]

\* The suggestions a list handed to MergeGroups is drawn from.
GroupPool ==
    {Group(<<"a","l","p","h","a">>, <<"f","i","r","s","t">>, <<<<"1">>, <<"2">>, <<"3">>>>, Fx(9, 10)),
     Group(<<"b","e","t","a">>, <<"s","e","c","o","n","d">>, <<<<"2">>, <<"3">>, <<"4">>>>, Fx(7, 10)),
     Group(<<"g","a","m","m","a">>, <<>>, <<<<"4">>, <<"3">>>>, Fx(8, 10)),
     Group(<<"d","e","l","t","a"," ","o","n","e">>, <<"f","o","u","r","t","h">>, <<<<"1">>, <<"2">>, <<"3">>, <<"4">>>>, Fx(1, 1)),
     Group(<<"e","p","s">>, <<"f","i","f","t","h">>, <<<<"5">>>>, Fx(6, 10)),
     Group(<<"d","u","p">>, <<"s","i","x","t","h">>, <<<<"1">>, <<"1">>, <<"2">>>>, Fx(5, 10)),
     Group(<<"n","o","n","e">>, <<"s","e","v","e","n","t","h">>, <<>>, Fx(4, 10))}

GroupLists == UNION {[1..n -> GroupPool] : n \in 0..MaxGroups}

MergeThresholds == {Fx(5, 10), Fx(6, 10), Fx(8, 10)}

(***************************************************************************)
(* State                                                                   *)
(***************************************************************************)
VARIABLES
    call,               \* the call made: [op, arg], arg its own arguments
    pc,                 \* "entry", "loop" or "done"
    pages,              \* the batch of pages handed to the call
    groups,             \* the suggestions handed to MergeGroups
    content,            \* SuggestByContent: [i, assigned, suggestions]
    merging,            \* MergeGroups: [i, processed, merged, merged_from]
    num_clusters,       \* DetectClusters: the target number of clusters
    similarity_matrix,  \* DetectClusters
    current_clusters,   \* DetectClusters
    result              \* what the call returned, once pc = "done"

vars == <<call, pc, pages, groups, content, merging, num_clusters,
          similarity_matrix, current_clusters, result>>

NoContent == [i |-> 0, assigned |-> <<>>, suggestions |-> <<>>]
NoMerging == [i |-> 0, processed |-> <<>>, merged |-> <<>>, merged_from |-> <<>>]

\* The state at the entry of the call of op with arg on the pages pgs and
\* the suggestions gs.
Entry(op, arg, pgs, gs) ==
    /\ call = [op |-> op, arg |-> arg]
    /\ pc = "entry"
    /\ pages = pgs
    /\ groups = gs
    /\ content = NoContent
    /\ merging = NoMerging
    /\ num_clusters = 0
    /\ similarity_matrix = <<>>
    /\ current_clusters = <<>>
    /\ result = <<>>

Return(value) ==
    /\ result' = value
    /\ pc' = "done"

(***************************************************************************)
(* SuggestByContent, one action per iteration of its outer loop            *)
(***************************************************************************)
InitContent ==
    \/ \E pgs \in Batches, threshold \in ContentThresholds :
           Entry("SuggestByContent", threshold, pgs, <<>>)
    \/ \E pgs \in ExampleBatches, threshold \in ContentThresholds :
           Entry("SuggestByContent", threshold, pgs, <<>>)

ContentEnter ==
    /\ call.op = "SuggestByContent" /\ pc = "entry"
    /\ IF pages = <<>>
       THEN Return(<<>>) /\ UNCHANGED content
       ELSE content' = ContentStart(pages) /\ pc' = "loop" /\ UNCHANGED result
    /\ UNCHANGED <<call, pages, groups, merging, num_clusters,
                   similarity_matrix, current_clusters>>

ContentIterate ==
    /\ call.op = "SuggestByContent" /\ pc = "loop"
    /\ content.i < Len(pages)
    /\ content' \in ContentIterationResults(pages, call.arg, content)
    /\ UNCHANGED <<call, pc, pages, groups, merging, num_clusters,
                   similarity_matrix, current_clusters, result>>

ContentReturn ==
    /\ call.op = "SuggestByContent" /\ pc = "loop"
    /\ ~(content.i < Len(pages))
    /\ Return(content.suggestions)
    /\ UNCHANGED <<call, pages, groups, content, merging, num_clusters,
                   similarity_matrix, current_clusters>>

NextContent == ContentEnter \/ ContentIterate \/ ContentReturn

SpecContent == InitContent /\ [][NextContent]_vars

(***************************************************************************)
(* MergeGroups, one action per iteration of its outer loop                 *)
(***************************************************************************)
InitMerge ==
    \E gs \in GroupLists, threshold \in MergeThresholds :
        Entry("MergeGroups", threshold, <<>>, gs)

MergeEnter ==
    /\ call.op = "MergeGroups" /\ pc = "entry"
    /\ IF Len(groups) <= 1
       THEN Return(groups) /\ UNCHANGED merging
       ELSE merging' = MergeStart(groups) /\ pc' = "loop" /\ UNCHANGED result
    /\ UNCHANGED <<call, pages, groups, content, num_clusters,
                   similarity_matrix, current_clusters>>

MergeIterate ==
    /\ call.op = "MergeGroups" /\ pc = "loop"
    /\ merging.i < Len(groups)
    /\ merging' = MergeIteration(groups, call.arg, merging)
    /\ UNCHANGED <<call, pc, pages, groups, content, num_clusters,
                   similarity_matrix, current_clusters, result>>

MergeReturn ==
    /\ call.op = "MergeGroups" /\ pc = "loop"
    /\ ~(merging.i < Len(groups))
    /\ Return(merging.merged)
    /\ UNCHANGED <<call, pages, groups, content, merging, num_clusters,
                   similarity_matrix, current_clusters>>

NextMerge == MergeEnter \/ MergeIterate \/ MergeReturn

SpecMerge == InitMerge /\ [][NextMerge]_vars

(***************************************************************************)
(* DetectClusters, one action per merge of the agglomerative loop          *)
(***************************************************************************)
InitClusters ==
    \E pgs \in ClusterBatches, k \in ClusterCounts :
        Entry("DetectClusters", k, pgs, <<>>)

ClustersEnter ==
    /\ call.op = "DetectClusters" /\ pc = "entry"
    /\ IF pages = <<>>
       THEN /\ Return(<<>>)
            /\ UNCHANGED <<num_clusters, similarity_matrix, current_clusters>>
       ELSE /\ num_clusters' = TargetClusters(call.arg, Len(pages))
            /\ similarity_matrix' = BuildSimilarityMatrix(pages)
            /\ current_clusters' = InitialClusters(pages)
            /\ pc' = "loop"
            /\ UNCHANGED result
    /\ UNCHANGED <<call, pages, groups, content, merging>>

ClustersMerge ==
    /\ call.op = "DetectClusters" /\ pc = "loop"
    /\ MoreMerging(current_clusters, num_clusters)
    /\ current_clusters' = MergeClusters(similarity_matrix, current_clusters)
    /\ UNCHANGED <<call, pc, pages, groups, content, merging, num_clusters,
                   similarity_matrix, result>>

ClustersReturn ==
    /\ call.op = "DetectClusters" /\ pc = "loop"
    /\ ~MoreMerging(current_clusters, num_clusters)
    /\ \E clusters \in ClusterSuggestionsResults(pages, similarity_matrix,
                                                 current_clusters) :
           \E ranked \in RankSuggestionsResults(clusters) : Return(ranked)
    /\ UNCHANGED <<call, pages, groups, content, merging, num_clusters,
                   similarity_matrix, current_clusters>>

NextClusters == ClustersEnter \/ ClustersMerge \/ ClustersReturn

SpecClusters == InitClusters /\ [][NextClusters]_vars

(***************************************************************************)
(* The public calls of GroupSuggester                                      *)
(***************************************************************************)
InitDomain == \E pgs \in Batches : Entry("SuggestByDomain", 0, pgs, <<>>)
InitTopic == \E pgs \in Batches : Entry("SuggestByTopic", 0, pgs, <<>>)
InitCombined ==
    \E pgs \in Batches, threshold \in ContentThresholds :
        Entry("SuggestGroupsCombined", threshold, pgs, <<>>)

CallSuggestByDomain ==
    /\ call.op = "SuggestByDomain" /\ pc = "entry"
    /\ \E r \in SuggestByDomainResults(pages) : Return(r)
    /\ UNCHANGED <<call, pages, groups, content, merging, num_clusters,
                   similarity_matrix, current_clusters>>

CallSuggestByTopic ==
    /\ call.op = "SuggestByTopic" /\ pc = "entry"
    /\ \E r \in SuggestByTopicResults(pages) : Return(r)
    /\ UNCHANGED <<call, pages, groups, content, merging, num_clusters,
                   similarity_matrix, current_clusters>>

CallSuggestGroupsCombined ==
    /\ call.op = "SuggestGroupsCombined" /\ pc = "entry"
    /\ \E r \in SuggestGroupsCombinedResults(pages, call.arg) : Return(r)
    /\ UNCHANGED <<call, pages, groups, content, merging, num_clusters,
                   similarity_matrix, current_clusters>>

Init ==
    \/ InitContent
    \/ InitDomain
    \/ InitTopic
    \/ InitMerge
    \/ InitCombined
    \/ InitClusters

Next ==
    \/ NextContent
    \/ CallSuggestByDomain
    \/ CallSuggestByTopic
    \/ NextMerge
    \/ CallSuggestGroupsCombined
    \/ NextClusters

Spec == Init /\ [][Next]_vars


(***************************************************************************)
(* Properties of DetectClusters                                            *)
(***************************************************************************)
InClusterLoop == call.op = "DetectClusters" /\ pc = "loop"
ClustersDone == call.op = "DetectClusters" /\ pc = "done"

\* In how many places of the current clusters the page index idx is.
PlacesOf(idx) ==
    SumOver([k \in 1..Len(current_clusters) |->
                Occurrences(current_clusters[k], idx)],
            1..Len(current_clusters))

\* C1: after the initialisation and after every merge of DetectClusters the
\* current clusters partition the batch: every page index 0..n-1 is in exactly
\* one cluster, no cluster is empty, and no cluster holds anything else.
ClustersPartitionBatch ==
    InClusterLoop =>
        /\ \A idx \in 0..(Len(pages) - 1) : PlacesOf(idx) = 1
        /\ \A k \in 1..Len(current_clusters) :
               /\ current_clusters[k] /= <<>>
               /\ Range(current_clusters[k]) \subseteq 0..(Len(pages) - 1)

\* A merge has made a cluster of three pages out of a batch of four.
ClustersMergedTwice ==
    /\ InClusterLoop
    /\ Len(pages) = 4
    /\ \E k \in 1..Len(current_clusters) : Len(current_clusters[k]) = 3

\* C2: for a requested num_clusters >= 1, DetectClusters returns at most
\* num_clusters groups.
AtMostRequestedClusters ==
    (ClustersDone /\ call.arg >= 1) => Len(result) <= call.arg

\* Two clusters were requested and two groups of two pages are returned.
TwoRequestedTwoReturned ==
    /\ ClustersDone
    /\ call.arg = 2
    /\ Len(result) = 2

IsSymmetric(matrix) ==
    \A r, c \in 1..Len(matrix) : matrix[r][c] = matrix[c][r]
HasUnitDiagonal(matrix) ==
    \A r \in 1..Len(matrix) : matrix[r][r] = Fx(1, 1)

\* C9: the similarity matrix DetectClusters builds has one row and one column
\* per page, is symmetric and has 1.0 on its diagonal, and no step of the call
\* after its construction changes it.
SimilarityMatrixSymmetricAndKept ==
    /\ [](InClusterLoop =>
            /\ Len(similarity_matrix) = Len(pages)
            /\ IsSymmetric(similarity_matrix)
            /\ HasUnitDiagonal(similarity_matrix))
    /\ [][InClusterLoop => similarity_matrix' = similarity_matrix]_vars

\* A merge has been made over a matrix with a similarity strictly between 0
\* and 1 off its diagonal.
MergedOverMixedMatrix ==
    /\ InClusterLoop
    /\ Len(current_clusters) < Len(pages)
    /\ \E r, c \in 1..Len(similarity_matrix) :
           /\ r /= c
           /\ similarity_matrix[r][c] > 0
           /\ similarity_matrix[r][c] < Fx(1, 1)

\* The page index an id returned by DetectClusters stands for.
IndexOfId(id) == CHOOSE idx \in 0..(Len(pages) - 1) : to_string(idx) = id
MembersOf(g) == {IndexOfId(g.page_ids[k]) : k \in 1..Len(g.page_ids)}
UnorderedPairs(S) == {p \in S \X S : p[1] < p[2]}

\* The mean of the matrix entries over the unordered pairs of members.
MeanPairSimilarity(members) ==
    SumOver([p \in UnorderedPairs(members) |->
                At(At(similarity_matrix, p[1]), p[2])],
            UnorderedPairs(members))
        \div Cardinality(UnorderedPairs(members))

ScoreAsDocumented(g) ==
    IF Cardinality(UnorderedPairs(MembersOf(g))) < 2 THEN Fx(5, 10)
    ELSE MeanPairSimilarity(MembersOf(g))

\* C10 as stated: the score of a group of DetectClusters is the mean of the
\* matrix entries over the unordered pairs of its members, or 0.5 when the
\* cluster has fewer than 2 such pairs.
ClusterScoreMeanOrHalfBelowTwoPairs ==
    ClustersDone =>
        \A k \in 1..Len(result) :
            result[k].similarity_score = ScoreAsDocumented(result[k])

\* C10 as amended: every group of DetectClusters has at least two distinct
\* members, so at least one pair, and its score is the mean of the matrix
\* entries over the unordered pairs of its members, one pair included.
ClusterScoreIsMeanOverPairs ==
    ClustersDone =>
        \A k \in 1..Len(result) :
            /\ Len(result[k].page_ids) >= 2
            /\ Cardinality(MembersOf(result[k])) = Len(result[k].page_ids)
            /\ result[k].similarity_score = MeanPairSimilarity(MembersOf(result[k]))

\* A group of two pages, so of one pair, is returned with a score that is
\* neither 0.5 nor 0.
TwoMemberClusterScored ==
    /\ ClustersDone
    /\ \E k \in 1..Len(result) :
           /\ Len(result[k].page_ids) = 2
           /\ result[k].similarity_score /= Fx(5, 10)
           /\ result[k].similarity_score > 0

(***************************************************************************)
(* Properties of MergeGroups                                               *)
(***************************************************************************)
MergeDone == call.op = "MergeGroups" /\ pc = "done"

\* The indices of the groups handed in that make up the k-th group returned:
\* a list of one or no group is returned as it is.
FoldedInto(k) ==
    IF Len(groups) <= 1 THEN <<k - 1>> ELSE merging.merged_from[k]

IdSet(g) == Range(g.page_ids)
DuplicateFree(gs) == \A k \in 1..Len(gs) : NoDuplicates(gs[k].page_ids)

\* Whether |A \cap B| / |A \cup B| >= threshold, for sets with a member.
OverlapReaches(set_a, set_b, threshold) ==
    Cardinality(set_a \cap set_b) * Scale
        >= threshold * Cardinality(set_a \cup set_b)

\* What MergeGroups is to return for the two groups group_a, group_b.
TwoGroupsMerged(group_a, group_b, threshold, returned) ==
    IF OverlapReaches(IdSet(group_a), IdSet(group_b), threshold)
    THEN /\ Len(returned) = 1
         /\ IdSet(returned[1]) = IdSet(group_a) \cup IdSet(group_b)
         /\ returned[1].page_ids =
                group_a.page_ids \o
                SelectSeq(group_b.page_ids, LAMBDA id : id \notin IdSet(group_a))
    ELSE returned = <<group_a, group_b>>

IsExamplePair(gs) ==
    /\ Len(gs) = 2
    /\ gs[1].page_ids = <<<<"1">>, <<"2">>, <<"3">>>>
    /\ gs[2].page_ids = <<<<"2">>, <<"3">>, <<"4">>>>

\* C4: of two groups A, B without duplicate ids, MergeGroups returns one group
\* of A's ids followed by B's ids not in A when |A \cap B| / |A \cup B| is at
\* least the threshold, and both groups unchanged otherwise; {1,2,3} and
\* {2,3,4} become {1,2,3,4} at threshold 0.5 and stay apart at 0.6.
TwoGroupsMergeByOverlap ==
    (MergeDone /\ Len(groups) = 2 /\ DuplicateFree(groups)
        /\ IdSet(groups[1]) \cup IdSet(groups[2]) /= {}) =>
        /\ TwoGroupsMerged(groups[1], groups[2], call.arg, result)
        /\ (IsExamplePair(groups) /\ call.arg = Fx(5, 10)) =>
               /\ Len(result) = 1
               /\ result[1].page_ids = <<<<"1">>, <<"2">>, <<"3">>, <<"4">>>>
        /\ (IsExamplePair(groups) /\ call.arg = Fx(6, 10)) => result = groups

\* The groups {1,2,3} and {2,3,4} have been merged at threshold 0.5.
ExamplePairMerged ==
    /\ MergeDone
    /\ IsExamplePair(groups)
    /\ call.arg = Fx(5, 10)
    /\ Len(result) = 1

MinOf(S) == CHOOSE x \in S : \A y \in S : x <= y
ScoresFoldedInto(k) ==
    {At(groups, FoldedInto(k)[m]).similarity_score :
        m \in 1..Len(FoldedInto(k))}

\* C5: the score of every group MergeGroups returns is the minimum of the
\* scores of the groups handed in that were folded into it, its own score
\* when no other was.
MergedScoreIsMinimum ==
    MergeDone =>
        \A k \in 1..Len(result) :
            result[k].similarity_score = MinOf(ScoresFoldedInto(k))

\* A group made of three has a score below that of the first of the three
\* and of the last.
ThreeFoldedWithLowerScore ==
    /\ MergeDone
    /\ \E k \in 1..Len(result) :
           /\ Len(FoldedInto(k)) = 3
           /\ result[k].similarity_score
                  < At(groups, FoldedInto(k)[1]).similarity_score
           /\ result[k].similarity_score
                  < At(groups, FoldedInto(k)[3]).similarity_score

\* In how many places of the groups returned the group of index i is.
TimesFolded(i) ==
    SumOver([k \in 1..Len(result) |-> Occurrences(FoldedInto(k), i)],
            1..Len(result))

\* C6: every group handed to MergeGroups is part of exactly one group
\* returned, whose ids are those of its parts; a group that neither took in
\* another nor was taken in is returned with name, description, ids and score
\* unchanged; and the groups returned are in the order of their first parts.
EveryGroupFoldedOnce ==
    MergeDone =>
        /\ \A i \in 0..(Len(groups) - 1) : TimesFolded(i) = 1
        /\ \A k \in 1..Len(result) :
               /\ FoldedInto(k) /= <<>>
               /\ IdSet(result[k]) =
                      UNION {IdSet(At(groups, FoldedInto(k)[m])) :
                                 m \in 1..Len(FoldedInto(k))}
               /\ Len(FoldedInto(k)) = 1 =>
                      result[k] = At(groups, FoldedInto(k)[1])
        /\ \A k1, k2 \in 1..Len(result) :
               k1 < k2 => FoldedInto(k1)[1] < FoldedInto(k2)[1]

\* Of three groups the first took in the last, and the one between them is
\* returned after it, untouched.
MiddleGroupPassedThrough ==
    /\ MergeDone
    /\ Len(groups) = 3
    /\ Len(result) = 2
    /\ FoldedInto(1) = <<0, 2>>
    /\ FoldedInto(2) = <<1>>

(***************************************************************************)
(* Properties of SuggestByContent                                          *)
(***************************************************************************)
ContentDone == call.op = "SuggestByContent" /\ pc = "done"

\* The seeds page j = Len(seeds) can join, seeds[i] being the seed page i
\* has joined or -1 when it has joined none.
JoinableSeeds(pgs, threshold, seeds) ==
    {i \in 0..(Len(seeds) - 1) :
        /\ At(seeds, i) = -1
        /\ CalculateCosineSimilarity(At(pgs, i).text, At(pgs, Len(seeds)).text)
               >= threshold}

RECURSIVE GreedySeeds(_, _, _)
\* For each page of the batch in turn, the seed it joins or -1: page j joins
\* the smallest i < j that joined no seed itself and whose text has a cosine
\* similarity of at least the threshold with the text of j.
GreedySeeds(pgs, threshold, seeds) ==
    IF Len(seeds) = Len(pgs) THEN seeds
    ELSE GreedySeeds(pgs, threshold,
             Append(seeds,
                 IF JoinableSeeds(pgs, threshold, seeds) = {} THEN -1
                 ELSE MinOf(JoinableSeeds(pgs, threshold, seeds))))

\* The groups the seeds make: each seed that some page joined, followed by
\* the pages that joined it, seeds and pages in batch order.
GroupsOfSeeds(seeds) ==
    LET joined(i) == {j \in 0..(Len(seeds) - 1) : At(seeds, j) = i}
        heads == AscendingSeq({i \in 0..(Len(seeds) - 1) :
                                  At(seeds, i) = -1 /\ joined(i) /= {}})
    IN  [k \in 1..Len(heads) |-> <<heads[k]>> \o AscendingSeq(joined(heads[k]))]

GreedyGroups(pgs, threshold) == GroupsOfSeeds(GreedySeeds(pgs, threshold, <<>>))

IdsOf(indices) == [m \in 1..Len(indices) |-> to_string(indices[m])]

\* C7: SuggestByContent is a greedy single pass in batch order: page j is in
\* the group seeded by page i exactly when i is the smallest index before j
\* that no earlier seed claimed and whose text has a cosine similarity of at
\* least the threshold with that of j; the groups returned are disjoint and
\* have two members or more.
ContentGroupsAreGreedy ==
    ContentDone =>
        /\ Len(result) = Len(GreedyGroups(pages, call.arg))
        /\ \A k \in 1..Len(result) :
               /\ result[k].page_ids = IdsOf(GreedyGroups(pages, call.arg)[k])
               /\ Len(result[k].page_ids) >= 2
        /\ \A k1, k2 \in 1..Len(result) :
               k1 /= k2 => IdSet(result[k1]) \cap IdSet(result[k2]) = {}

\* The grouping of the documents a list of groups makes, the document at
\* position k of the batch grouped being the one at position q[k] of pages.
GroupingOf(gs, q) ==
    {{q[IndexOfId(gs[k].page_ids[m]) + 1] : m \in 1..Len(gs[k].page_ids)} :
        k \in 1..Len(gs)}

\* Whether SuggestByContent on pages reordered by q groups the documents in
\* another way than the groups returned for pages.
RegroupedBy(q) ==
    \E r \in SuggestByContentResults([k \in 1..Len(pages) |-> pages[q[k]]],
                                     call.arg) :
        GroupingOf(r, q) /= GroupingOf(result, [k \in 1..Len(pages) |-> k])

\* A group is returned with two members after its seed whose texts are less
\* similar than the threshold, and the same documents in another order are
\* grouped in another way.
GreedyOrderMatters ==
    /\ ContentDone
    /\ \E k \in 1..Len(result) :
           \E a, b \in 2..Len(result[k].page_ids) :
               CalculateCosineSimilarity(
                   At(pages, IndexOfId(result[k].page_ids[a])).text,
                   At(pages, IndexOfId(result[k].page_ids[b])).text) < call.arg
    /\ \E q \in Perms(Len(pages)) : RegroupedBy(q)

BothIds == {<<"0">>, <<"1">>}
IsExampleBatch(pgs) ==
    /\ Len(pgs) = 2
    /\ pgs[1].text = <<"C","a","t","s"," ","a","r","e"," ","g","r","e","a","t"," ","p","e","t","s","."," ","C","a","t","s"," ","l","o","v","e"," ","t","o"," ","s","l","e","e","p",".">>
    /\ pgs[2].text = <<"D","o","g","s"," ","a","r","e"," ","g","r","e","a","t"," ","p","e","t","s","."," ","D","o","g","s"," ","l","o","v","e"," ","t","o"," ","p","l","a","y",".">>

\* C8: of two documents SuggestByContent returns one group with the ids of
\* both when the cosine similarity of their texts is at least the threshold,
\* and no group otherwise; for "Cats are great pets. Cats love to sleep." and
\* "Dogs are great pets. Dogs love to play." at threshold 0.3 it returns one
\* group with both ids.
TwoDocumentsGroupedBySimilarity ==
    (ContentDone /\ Len(pages) = 2) =>
        /\ IF CalculateCosineSimilarity(pages[1].text, pages[2].text) >= call.arg
           THEN Len(result) = 1 /\ IdSet(result[1]) = BothIds
           ELSE result = <<>>
        /\ (IsExampleBatch(pages) /\ call.arg = Fx(3, 10)) =>
               /\ Len(result) = 1
               /\ IdSet(result[1]) = BothIds
               /\ Len(result[1].page_ids) = 2

\* The two documents of the example are returned as one group at 0.3.
ExampleDocumentsGrouped ==
    /\ ContentDone
    /\ IsExampleBatch(pages)
    /\ call.arg = Fx(3, 10)
    /\ Len(result) = 1

(***************************************************************************)
(* Properties of every call                                                *)
(***************************************************************************)
\* C3: every group returned by SuggestByContent, SuggestByDomain,
\* SuggestByTopic, DetectClusters and SuggestGroupsCombined, and by MergeGroups
\* when no group handed to it has an id twice, has each of its ids once.
NoDuplicateMemberIds ==
    (pc = "done" /\ (call.op = "MergeGroups" => DuplicateFree(groups)))
        => DuplicateFree(result)

\* MergeGroups, handed groups without duplicates, has folded into a group
\* another that shares ids with it and has ids of its own.
OverlappingGroupsFolded ==
    /\ MergeDone
    /\ DuplicateFree(groups)
    /\ \E k \in 1..Len(result) :
           /\ Len(FoldedInto(k)) > 1
           /\ Len(result[k].page_ids)
                  > Len(At(groups, FoldedInto(k)[1]).page_ids)
           /\ IdSet(At(groups, FoldedInto(k)[1]))
                  \cap IdSet(At(groups, FoldedInto(k)[2])) /= {}

(***************************************************************************)
(* The target number of clusters of DetectClusters, by document count      *)
(***************************************************************************)
MaxDocuments == 34

\* The step of DetectClusters that settles the target, entered with
\* call.arg = <<num_clusters, pages.size()>>.
InitTarget ==
    \E k \in ClusterCounts, document_count \in 1..MaxDocuments :
        Entry("TargetClusters", <<k, document_count>>, <<>>, <<>>)

CallTargetClusters ==
    /\ call.op = "TargetClusters" /\ pc = "entry"
    /\ num_clusters' = TargetClusters(call.arg[1], call.arg[2])
    /\ Return(num_clusters')
    /\ UNCHANGED <<call, pages, groups, content, merging, similarity_matrix,
                   current_clusters>>

SpecTarget == InitTarget /\ [][CallTargetClusters]_vars

\* C11: with num_clusters = 0 the target number of clusters of a batch of
\* document_count >= 1 pages is max(2, min(10, document_count / 3)), the
\* division being the integer one.
AutomaticTargetFromCount ==
    (call.op = "TargetClusters" /\ pc = "done" /\ call.arg[1] = 0)
    => num_clusters = Max2(2, Min2(10, call.arg[2] \div 3))

\* The automatic target of a batch of 33 pages or more was cut down to 10.
TargetCappedAtTen ==
    /\ call.op = "TargetClusters" /\ pc = "done"
    /\ call.arg[1] = 0 /\ call.arg[2] \div 3 > 10
    /\ num_clusters = 10

(***************************************************************************)
(* The calls of SimilarityCalculator                                       *)
(***************************************************************************)
MaxKeywords == 2

KeywordPool == {<<"m","l">>, <<"a","i">>, <<"d","a","t","a">>}
ExampleKeywordsA == <<<<"m","l">>, <<"a","i">>, <<"d","a","t","a">>>>
ExampleKeywordsB == <<<<"a","i">>, <<"d","a","t","a">>, <<"c","l","o","u","d">>>>

\* The keyword lists handed to CalculateJaccardSimilarity.
KeywordLists ==
    UNION {[1..n -> KeywordPool] : n \in 0..MaxKeywords}
    \cup {ExampleKeywordsA, ExampleKeywordsB}

InitJaccard ==
    \E keywords_a \in KeywordLists, keywords_b \in KeywordLists :
        Entry("CalculateJaccardSimilarity", <<keywords_a, keywords_b>>,
              <<>>, <<>>)

CallJaccardSimilarity ==
    /\ call.op = "CalculateJaccardSimilarity" /\ pc = "entry"
    /\ Return(JaccardSimilarity(call.arg[1], call.arg[2]))
    /\ UNCHANGED <<call, pages, groups, content, merging, num_clusters,
                   similarity_matrix, current_clusters>>

\* The texts handed to the calculator: without a token, of words with
\* frequencies 1, 1/2, 1/3 and 2/3, 1/4 and 1/2, and of three and two words.
TextPool ==
    {<<>>, <<"t","h","e">>, <<"R","u","s","t","!">>, <<"r","u","s","t"," ","c","o","d","e">>, <<"r","u","s","t"," ","r","u","s","t"," ","c","o","d","e">>,
     <<"r","u","s","t"," ","c","o","d","e"," ","j","a","v","a"," ","j","a","v","a">>, <<"j","a","v","a"," ","c","o","d","e">>}

InitCosine ==
    \E text_a \in TextPool, text_b \in TextPool :
        Entry("CalculateCosineSimilarity", <<text_a, text_b>>, <<>>, <<>>)

CallCosineSimilarity ==
    /\ call.op = "CalculateCosineSimilarity" /\ pc = "entry"
    /\ \E similarity \in CosineSimilarityResults(call.arg[1], call.arg[2]) :
           Return(similarity)
    /\ UNCHANGED <<call, pages, groups, content, merging, num_clusters,
                   similarity_matrix, current_clusters>>

MaxN == 3

InitNGram ==
    \E text_a \in TextPool, text_b \in TextPool, n \in 1..MaxN :
        Entry("CalculateNGramSimilarity", <<text_a, text_b, n>>, <<>>, <<>>)

CallNGramSimilarity ==
    /\ call.op = "CalculateNGramSimilarity" /\ pc = "entry"
    /\ Return(NGramSimilarity(call.arg[1], call.arg[2], call.arg[3]))
    /\ UNCHANGED <<call, pages, groups, content, merging, num_clusters,
                   similarity_matrix, current_clusters>>

InitCombinedSimilarity ==
    \E text_a \in TextPool, text_b \in TextPool :
        Entry("CalculateCombinedSimilarity", <<text_a, text_b>>, <<>>, <<>>)

CallCombinedSimilarity ==
    /\ call.op = "CalculateCombinedSimilarity" /\ pc = "entry"
    /\ \E similarity \in CombinedSimilarityResults(call.arg[1], call.arg[2]) :
           Return(similarity)
    /\ UNCHANGED <<call, pages, groups, content, merging, num_clusters,
                   similarity_matrix, current_clusters>>

Summary(summary_text, key_points, content_type, language, reading_time_minutes) ==
    [summary_text |-> summary_text, key_points |-> key_points,
     content_type |-> content_type, language |-> language,
     reading_time_minutes |-> reading_time_minutes]

\* The summaries handed to CalculateSummarySimilarity.
SummaryPool ==
    {Summary(<<"r","u","s","t"," ","c","o","d","e"," ","j","a","v","a"," ","j","a","v","a">>, <<<<"a","i">>>>, "Article", <<"e","n">>, 3),
     Summary(<<"r","u","s","t"," ","c","o","d","e">>, <<<<"a","i">>, <<"m","l">>>>, "Video", <<"e","n">>, 0),
     Summary(<<"r","u","s","t"," ","r","u","s","t"," ","c","o","d","e">>, <<<<"m","l">>>>, "News", <<"e","n">>, 1),
     Summary(<<"j","a","v","a"," ","c","o","d","e">>, <<<<"a","i">>>>, "Article", <<"z","h">>, 7),
     Summary(<<>>, <<>>, "Documentation", <<"z","h">>, 1),
     Summary(<<"t","h","e">>, <<>>, "Reference", <<>>, 0)}

InitSummary ==
    \E a \in SummaryPool, b \in SummaryPool :
        Entry("CalculateSummarySimilarity", <<a, b>>, <<>>, <<>>)

CallSummarySimilarity ==
    /\ call.op = "CalculateSummarySimilarity" /\ pc = "entry"
    /\ \E similarity \in SummarySimilarityResults(call.arg[1], call.arg[2]) :
           Return(similarity)
    /\ UNCHANGED <<call, pages, groups, content, merging, num_clusters,
                   similarity_matrix, current_clusters>>

MaxCorpus == 3

QueryPool == {<<"r","u","s","t">>, <<"r","u","s","t"," ","c","o","d","e">>}

DocumentPool == {<<"r","u","s","t">>, <<"c","o","d","e"," ","r","u","s","t">>, <<"j","a","v","a">>}

Corpora == UNION {[1..n -> DocumentPool] : n \in 0..MaxCorpus}

SimilarThresholds == {Dbl(1, 2), Dbl(8, 10)}

InitFindSimilar ==
    \E query \in QueryPool, corpus \in Corpora, threshold \in SimilarThresholds :
        Entry("FindSimilarDocuments", <<query, corpus, threshold>>, <<>>, <<>>)

CallFindSimilarDocuments ==
    /\ call.op = "FindSimilarDocuments" /\ pc = "entry"
    /\ \E results \in FindSimilarDocumentsResults(call.arg[1], call.arg[2],
                                                  call.arg[3]) :
           Return(results)
    /\ UNCHANGED <<call, pages, groups, content, merging, num_clusters,
                   similarity_matrix, current_clusters>>

InitCalculator ==
    \/ InitJaccard
    \/ InitCosine
    \/ InitNGram
    \/ InitCombinedSimilarity
    \/ InitSummary
    \/ InitFindSimilar

NextCalculator ==
    \/ CallJaccardSimilarity
    \/ CallCosineSimilarity
    \/ CallNGramSimilarity
    \/ CallCombinedSimilarity
    \/ CallSummarySimilarity
    \/ CallFindSimilarDocuments

SpecCalculator == InitCalculator /\ [][NextCalculator]_vars

Returned(op) == call.op = op /\ pc = "done"

\* C12: CalculateJaccardSimilarity returns 1.0 for two empty lists, 0.0 when
\* exactly one is empty, and otherwise the size of the intersection of the
\* two keyword sets over the size of their union, duplicates ignored ([ml,
\* ai, data] against [ai, data, cloud] gives 0.5); swapping the lists gives
\* the same value.
JaccardIsSetOverlap ==
    Returned("CalculateJaccardSimilarity") =>
        LET set_a == Range(call.arg[1])
            set_b == Range(call.arg[2])
        IN  /\ (set_a = {} /\ set_b = {}) => result = DoubleOne
            /\ (set_a = {}) # (set_b = {}) => result = Zero
            /\ (set_a # {} /\ set_b # {}) =>
                   result = Dbl(Cardinality(set_a \cap set_b),
                                Cardinality(set_a \cup set_b))
            /\ call.arg = <<ExampleKeywordsA, ExampleKeywordsB>> =>
                   result = Dbl(1, 2)
            /\ result = JaccardSimilarity(call.arg[2], call.arg[1])

\* The documented example returned 0.5.
JaccardExampleIsHalf ==
    /\ Returned("CalculateJaccardSimilarity")
    /\ call.arg = <<ExampleKeywordsA, ExampleKeywordsB>>
    /\ result = Dbl(1, 2)

\* C13: CalculateCosineSimilarity returns 1.0 for a text with at least one
\* token against itself, and 0.0 whenever one of the two texts, or both,
\* has no token.
CosineOfTextWithItselfIsOne ==
    Returned("CalculateCosineSimilarity") =>
        /\ (call.arg[1] = call.arg[2] /\ Tokenize(call.arg[1]) # <<>>) =>
               result = DoubleOne
        /\ (Tokenize(call.arg[1]) = <<>> \/ Tokenize(call.arg[2]) = <<>>) =>
               result = Zero

\* A text of two words once each, against itself, came out below 1.0.
CosineOfTextWithItselfBelowOne ==
    /\ Returned("CalculateCosineSimilarity")
    /\ call.arg = <<<<"r","u","s","t"," ","c","o","d","e">>, <<"r","u","s","t"," ","c","o","d","e">>>>
    /\ FpCmp(result, DoubleOne) < 0

\* The set of n-grams of a text: its runs of n consecutive tokens joined by
\* single spaces, or its tokens when it has fewer than n.
NGramSet(text, n) ==
    LET tokens == Tokenize(text) IN
    IF Len(tokens) < n THEN Range(tokens)
    ELSE {JoinWith(SubSeq(tokens, i, i + n - 1), <<" ">>) :
             i \in 1..(Len(tokens) - n + 1)}

\* C14: CalculateNGramSimilarity(a, b, n), n >= 1, returns 1.0 when neither
\* text has an n-gram, 0.0 when exactly one has none, and otherwise the size
\* of the intersection of the two n-gram sets over the size of their union,
\* a text of fewer than n tokens contributing its tokens; for two texts
\* without a token the cosine is 0.0 where the n-gram similarity is 1.0.
NGramIsOverlapOfNGramSets ==
    /\ Returned("CalculateNGramSimilarity") =>
           LET set_a == NGramSet(call.arg[1], call.arg[3])
               set_b == NGramSet(call.arg[2], call.arg[3])
           IN  /\ (set_a = {} /\ set_b = {}) => result = DoubleOne
               /\ (set_a = {}) # (set_b = {}) => result = Zero
               /\ (set_a # {} /\ set_b # {}) =>
                      result = Dbl(Cardinality(set_a \cap set_b),
                                   Cardinality(set_a \cup set_b))
    /\ (Returned("CalculateCosineSimilarity")
           /\ Tokenize(call.arg[1]) = <<>> /\ Tokenize(call.arg[2]) = <<>>)
       => result = Zero

\* Trigrams were asked of a text of two tokens, which shared one of the two
\* with the other text.
ShortTextContributedItsTokens ==
    /\ Returned("CalculateNGramSimilarity")
    /\ call.arg[3] = 3
    /\ Len(Tokenize(call.arg[1])) = 2
    /\ result = Dbl(1, 2)

ScoreCalls ==
    {"CalculateCosineSimilarity", "CalculateJaccardSimilarity",
     "CalculateNGramSimilarity", "CalculateCombinedSimilarity",
     "CalculateSummarySimilarity"}

\* C15: every score returned by CalculateCosineSimilarity,
\* CalculateJaccardSimilarity, CalculateNGramSimilarity,
\* CalculateCombinedSimilarity and CalculateSummarySimilarity lies in [0, 1].
ScoresInUnitInterval ==
    (call.op \in ScoreCalls /\ pc = "done") =>
        FpCmp(Zero, result) <= 0 /\ FpCmp(result, DoubleOne) <= 0

\* The cosine of a text against itself came out above 1.0.
CosineAboveOne ==
    /\ Returned("CalculateCosineSimilarity")
    /\ call.arg[1] = call.arg[2]
    /\ FpCmp(result, DoubleOne) > 0

\* The corpus indices in the vector FindSimilarDocuments returned.
ReturnedIndices == {result[k].first : k \in 1..Len(result)}

\* The returned vector holds document i, once and with its cosine, exactly
\* when that cosine is at least the threshold.
ReturnsDocumentsAboveThreshold ==
    LET query == call.arg[1]
        corpus == call.arg[2]
        threshold == call.arg[3]
    IN  /\ Cardinality(ReturnedIndices) = Len(result)
        /\ ReturnedIndices \subseteq 0..(Len(corpus) - 1)
        /\ \A k \in 1..Len(result) :
              /\ result[k].second
                   \in CosineSimilarityResults(query, At(corpus, result[k].first))
              /\ FpCmp(result[k].second, threshold) >= 0
        /\ \A i \in (0..(Len(corpus) - 1)) \ ReturnedIndices :
              \E similarity \in CosineSimilarityResults(query, At(corpus, i)) :
                  FpCmp(similarity, threshold) < 0

\* No returned entry is followed by one of greater similarity.
SimilarityNonIncreasing ==
    \A k \in 1..(Len(result) - 1) :
        FpCmp(result[k].second, result[k + 1].second) >= 0

\* C16 without its last clause: FindSimilarDocuments returns exactly the
\* corpus indices whose cosine similarity with the query is at least the
\* threshold, each once with its score, by non-increasing score.
SimilarDocumentsSorted ==
    Returned("FindSimilarDocuments") =>
        ReturnsDocumentsAboveThreshold /\ SimilarityNonIncreasing

\* C16: FindSimilarDocuments returns exactly the corpus indices whose cosine
\* similarity with the query is at least the threshold, each once with its
\* score, by non-increasing score, and entries of equal score keep their
\* corpus order.
SimilarDocumentsSortedStably ==
    Returned("FindSimilarDocuments") =>
        /\ ReturnsDocumentsAboveThreshold
        /\ SimilarityNonIncreasing
        /\ \A k \in 1..(Len(result) - 1) :
              FpCmp(result[k].second, result[k + 1].second) = 0
                  => result[k].first < result[k + 1].first

\* Two documents of equal similarity came back against their corpus order.
EqualScoresOutOfCorpusOrder ==
    /\ Returned("FindSimilarDocuments")
    /\ \E k \in 1..(Len(result) - 1) :
          /\ FpCmp(result[k].second, result[k + 1].second) = 0
          /\ result[k].first > result[k + 1].first

(***************************************************************************)
(* Calls of GenerateCrossRecommendations and RankSuggestions               *)
(***************************************************************************)
MaxBatch == 3

MlRustPage == Page(<<"R","u","s","t">>, <<"r","u","s","t"," ","c","o","d","e">>, <<<<"m","l">>, <<"a","i">>>>, <<>>)
MlRustAgainPage == Page(<<"R","u","s","t"," ","a","g","a","i","n">>, <<"r","u","s","t"," ","c","o","d","e">>, <<<<"m","l">>, <<"a","i">>>>, <<>>)
MlJavaPage == Page(<<"J","a","v","a">>, <<"j","a","v","a">>, <<<<"a","i">>, <<"m","l">>>>, <<>>)
WebRustPage == Page(<<"W","e","b">>, <<"r","u","s","t"," ","c","o","d","e">>, <<<<"w","e","b">>>>, <<>>)

\* Pages without keywords, two of them without text as well.
PlainRustPage == Page(<<"P","l","a","i","n">>, <<"r","u","s","t"," ","c","o","d","e">>, <<>>, <<>>)
PlainRustAgainPage == Page(<<"P","l","a","i","n"," ","a","g","a","i","n">>, <<"r","u","s","t"," ","c","o","d","e">>, <<>>, <<>>)
BlankPage == Page(<<"B","l","a","n","k">>, <<>>, <<>>, <<>>)
BlankAgainPage == Page(<<"B","l","a","n","k"," ","a","g","a","i","n">>, <<>>, <<>>, <<>>)

RecommendationPool == {MlRustPage, MlRustAgainPage, MlJavaPage, WebRustPage}
KeywordlessPool == {PlainRustPage, PlainRustAgainPage, WebRustPage}
BlankPool == {BlankPage, BlankAgainPage, MlJavaPage}

\* The batches of up to MaxBatch different pages of one of the pools.
RecommendationBatches ==
    UNION {{pgs \in [1..n -> RecommendationPool] \cup [1..n -> KeywordlessPool]
                        \cup [1..n -> BlankPool] :
               \A a, b \in 1..n : pgs[a] = pgs[b] => a = b} : n \in 0..MaxBatch}

MinRelevances == {Flt(1, 2), Flt(3, 10)}

InitRecommendations ==
    \E pgs \in RecommendationBatches, min_relevance \in MinRelevances :
        Entry("GenerateCrossRecommendations", <<pgs, min_relevance>>, pgs, <<>>)

CallGenerateCrossRecommendations ==
    /\ call.op = "GenerateCrossRecommendations" /\ pc = "entry"
    /\ \E recommendations
           \in GenerateCrossRecommendationsResults(pages, call.arg[2]) :
           Return(recommendations)
    /\ UNCHANGED <<call, pages, groups, content, merging, num_clusters,
                   similarity_matrix, current_clusters>>

\* The suggestions a list handed to RankSuggestions is drawn from.
RankPool ==
    {Group(<<"a","l","p","h","a">>, <<"f","i","r","s","t">>, <<<<"1">>, <<"2">>, <<"3">>>>, Fx(9, 10)),
     Group(<<"o","m","e","g","a">>, <<"l","a","s","t">>, <<<<"4">>, <<"5">>>>, Fx(9, 10)),
     Group(<<"d","e","l","t","a"," ","o","n","e">>, <<"f","o","u","r","t","h">>, <<<<"1">>, <<"2">>, <<"3">>, <<"4">>>>, Fx(1, 1)),
     Group(<<"s","i","x"," ","p","a","g","e","s">>, <<>>,
           <<<<"1">>, <<"2">>, <<"3">>, <<"4">>, <<"5">>, <<"6">>>>, Fx(5, 10)),
     Group(<<"e","l","e","v","e","n">>, <<"b","i","g">>,
           <<<<"1">>, <<"2">>, <<"3">>, <<"4">>, <<"5">>, <<"6">>, <<"7">>, <<"8">>, <<"9">>,
             <<"1","0">>, <<"1","1">>>>, Fx(5, 10)),
     Group(<<"n","o","n","e">>, <<"s","e","v","e","n","t","h">>, <<>>, Fx(4, 10))}

RankLists == UNION {[1..n -> RankPool] : n \in 0..MaxGroups}

InitRank ==
    \E suggestions \in RankLists :
        Entry("RankSuggestions", <<suggestions>>, <<>>, suggestions)

CallRankSuggestions ==
    /\ call.op = "RankSuggestions" /\ pc = "entry"
    /\ \E ranked \in RankSuggestionsResults(groups) : Return(ranked)
    /\ UNCHANGED <<call, pages, groups, content, merging, num_clusters,
                   similarity_matrix, current_clusters>>

InitSuggester ==
    \/ InitRecommendations
    \/ InitRank

NextSuggester ==
    \/ CallGenerateCrossRecommendations
    \/ CallRankSuggestions

SpecSuggester == InitSuggester /\ [][NextSuggester]_vars

\* The places of the returned vector that recommend page j to page i.
RecommendationsOf(i, j) ==
    {k \in 1..Len(result) : /\ result[k].source_id = to_string(i)
                            /\ result[k].target_id = to_string(j)}

\* C17: GenerateCrossRecommendations returns exactly one recommendation for
\* each pair of batch positions i < j whose relevance, 0.6 * combined
\* similarity of the texts + 0.4 * Jaccard similarity of the keywords as the
\* code rounds it, is at least min_relevance, and none for any other pair:
\* every recommendation has its source index below its target index.
OneRecommendationPerRelevantPair ==
    Returned("GenerateCrossRecommendations") =>
        LET positions == 0..(Len(pages) - 1)
            min_relevance == call.arg[2]
        IN  /\ \A k \in 1..Len(result) :
                  \E i, j \in positions : i < j /\ k \in RecommendationsOf(i, j)
            /\ \A i, j \in positions : i < j =>
                  \E relevance \in RelevanceResults(At(pages, i), At(pages, j)) :
                      IF FpCmp(relevance, min_relevance) >= 0
                      THEN \E k \in 1..Len(result) :
                              /\ RecommendationsOf(i, j) = {k}
                              /\ result[k].relevance_score = relevance
                      ELSE RecommendationsOf(i, j) = {}

\* Of three pairs of a batch one was recommended and another was not.
RelevantPairKeptOtherDropped ==
    /\ Returned("GenerateCrossRecommendations")
    /\ Len(pages) = 3
    /\ \E i, j, k, l \in 0..2 :
          /\ i < j /\ k < l
          /\ RecommendationsOf(i, j) /= {}
          /\ RecommendationsOf(k, l) = {}

\* The batch of a GenerateCrossRecommendations call has three documents,
\* documents 0 and 1 share two keywords and document 2 shares none with them.
TwoShareKeywordsThirdNone ==
    /\ Len(pages) = 3
    /\ Cardinality(Range(pages[1].keywords) \cap Range(pages[2].keywords)) = 2
    /\ Range(pages[3].keywords)
         \cap (Range(pages[1].keywords) \cup Range(pages[2].keywords)) = {}

\* The places of the returned vector that hold a pair with document 2.
PlacesWithDocumentTwo ==
    {k \in 1..Len(result) : to_string(2) \in {result[k].source_id,
                                              result[k].target_id}}

\* The (0,1) pair is in the returned vector before place k.
PairZeroOneAbove(k) == \E above \in RecommendationsOf(0, 1) : above < k

\* The batch position whose pair with document 2 is at place k.
PartnerOfTwoAt(k) ==
    CHOOSE i \in 0..1 : to_string(i) \in {result[k].source_id, result[k].target_id}

\* The texts of documents 0 and 1 are at least as similar, by the combined
\* similarity, as those of document i and document 2.
TextsOfZeroOneAsSimilarAs(i) ==
    \A zero_one \in CombinedSimilarityResults(pages[1].text, pages[2].text),
       with_two \in CombinedSimilarityResults(At(pages, i).text, pages[3].text) :
        FpCmp(zero_one, with_two) >= 0

\* The claim C18 as stated: over three documents of which documents 0 and 1
\* share two keywords and document 2 shares none with either, the (0,1) pair
\* is ranked above every pair with document 2, whatever the texts.
KeywordPairRankedAboveAnyText ==
    (Returned("GenerateCrossRecommendations") /\ TwoShareKeywordsThirdNone) =>
        \A k \in PlacesWithDocumentTwo : PairZeroOneAbove(k)

\* C18: over three documents of which documents 0 and 1 share two keywords
\* and document 2 shares none with either, the (0,1) pair is ranked above
\* every pair with document 2 whose two texts are no more similar, by the
\* combined similarity, than the texts of documents 0 and 1.
KeywordPairRankedAboveLessSimilarTexts ==
    (Returned("GenerateCrossRecommendations") /\ TwoShareKeywordsThirdNone) =>
        \A k \in PlacesWithDocumentTwo :
            TextsOfZeroOneAsSimilarAs(PartnerOfTwoAt(k)) => PairZeroOneAbove(k)

\* Documents 0 and 1 share their keywords and their text, document 2 has
\* the same text, and its pairs came back below the (0,1) pair.
KeywordPairAboveSameTexts ==
    /\ Returned("GenerateCrossRecommendations") /\ TwoShareKeywordsThirdNone
    /\ PlacesWithDocumentTwo /= {}
    /\ \A k \in PlacesWithDocumentTwo :
          TextsOfZeroOneAsSimilarAs(PartnerOfTwoAt(k)) /\ PairZeroOneAbove(k)

\* The composite quality of a suggestion: the size bonus, 0.4 * its
\* similarity score, and the bonuses for its name and its description.
CompositeQuality(g) ==
    LET members == Len(g.page_ids) IN
      (IF members \in 2..5 THEN Fx(3, 10)
       ELSE IF members \in 6..10 THEN Fx(2, 10)
       ELSE IF members > 10 THEN Fx(1, 10)
       ELSE 0)
      + FxMul(Fx(4, 10), g.similarity_score)
      + (IF Len(g.group_name) > 5 THEN Fx(15, 100) ELSE 0)
      + (IF \E k \in 1..Len(g.group_name) : g.group_name[k] = " "
         THEN Fx(1, 10) ELSE 0)
      + (IF Len(g.description) > 0 THEN Fx(5, 100) ELSE 0)

\* The returned vector holds the suggestions of the input, each as often.
RankedIsPermutation ==
    /\ Len(result) = Len(groups)
    /\ \A g \in Range(groups) \cup Range(result) :
          Occurrences(result, g) = Occurrences(groups, g)

\* No returned suggestion is followed by one of greater composite quality.
QualityNonIncreasing ==
    \A k \in 1..(Len(result) - 1) :
        CompositeQuality(result[k]) >= CompositeQuality(result[k + 1])

\* C19 without its last clause: RankSuggestions returns a permutation of its
\* input by non-increasing composite quality.
RankedByQuality ==
    Returned("RankSuggestions") => RankedIsPermutation /\ QualityNonIncreasing

\* The suggestions of the input of composite quality q, in input order.
InputOfQuality(q) == SelectSeq(groups, LAMBDA g : CompositeQuality(g) = q)

\* C19: RankSuggestions returns a permutation of its input groups by
\* non-increasing composite quality (size bonus 0.3 for 2-5 members, 0.2 for
\* 6-10, 0.1 for more than 10; plus 0.4 * similarity_score; plus 0.15 for a
\* name longer than 5; plus 0.1 for a name with a space; plus 0.05 for a
\* non-empty description), and groups of equal composite keep their input
\* order.
RankedByQualityStably ==
    Returned("RankSuggestions") =>
        /\ RankedIsPermutation
        /\ QualityNonIncreasing
        /\ \A k \in 1..Len(result) :
              SelectSeq(result, LAMBDA g : CompositeQuality(g)
                                              = CompositeQuality(result[k]))
                = InputOfQuality(CompositeQuality(result[k]))

\* Two suggestions of equal composite quality came back in the reverse of
\* their input order.
EqualQualityOutOfInputOrder ==
    /\ Returned("RankSuggestions")
    /\ Len(groups) = 2 /\ groups[1] /= groups[2]
    /\ CompositeQuality(groups[1]) = CompositeQuality(groups[2])
    /\ result = <<groups[2], groups[1]>>

(***************************************************************************)
(* Calls of ContentAnalyzer::GenerateSummary                               *)
(***************************************************************************)
MaxPieces == 3
MaxSentences == 2

\* What the texts are made of: sentences, one of them with an abbreviation,
\* and a piece too short to count as a sentence.
PiecePool == {<<"R","u","s","t"," ","c","o","d","e"," ","i","s"," ","r","u","s","t"," ","c","o","d","e",".">>, <<"M","r","."," ","F","o","x"," ","l","i","k","e","s"," ","r","u","s","t"," ","c","o","d","e",".">>,
              <<"J","a","v","a"," ","c","o","d","e"," ","r","u","n","s","?">>, <<"G","o","!">>}

\* A text of 204 characters without a sentence: "Go! Go! Go! ..".
FragmentsText == [k \in 1..204 |-> <<"G", "o", "!", " ">>[((k - 1) % 4) + 1]]

SummaryTexts ==
    {JoinSentences(pieces) :
        pieces \in UNION {[1..n -> PiecePool] : n \in 0..MaxPieces}}
    \cup {FragmentsText}

InitGenerateSummary ==
    \E text \in SummaryTexts, max_sentences \in 0..MaxSentences :
        Entry("GenerateSummary", <<text, max_sentences>>, <<>>, <<>>)

CallGenerateSummary ==
    /\ call.op = "GenerateSummary" /\ pc = "entry"
    /\ \E summary \in GenerateSummaryResults(call.arg[1], call.arg[2]) :
           Return(summary)
    /\ UNCHANGED <<call, pages, groups, content, merging, num_clusters,
                   similarity_matrix, current_clusters>>

\* Pieces of 10, 11 and 3 characters, and one without its ending.
SplitPool == {<<"R","u","s","t"," ","c","o","d","e",".">>, <<"R","u","s","t"," ","c","o","d","e","s","!">>, <<"G","o","!">>, <<"R","u","s","t"," ","c","o","d","e","s">>}

SplitTexts ==
    {JoinSentences(pieces) :
        pieces \in UNION {[1..n -> SplitPool] : n \in 0..MaxPieces}}

InitSplitIntoSentences ==
    \E text \in SplitTexts : Entry("SplitIntoSentences", <<text>>, <<>>, <<>>)

CallSplitIntoSentences ==
    /\ call.op = "SplitIntoSentences" /\ pc = "entry"
    /\ Return(SplitIntoSentences(call.arg[1]))
    /\ UNCHANGED <<call, pages, groups, content, merging, num_clusters,
                   similarity_matrix, current_clusters>>

\* Texts of up to MaxPieces + 1 sentences, so that one comes after the first
\* three.
KeyPointPool == {<<"M","r","."," ","F","o","x"," ","l","i","k","e","s"," ","r","u","s","t"," ","c","o","d","e",".">>, <<"J","a","v","a"," ","c","o","d","e"," ","r","u","n","s","?">>}

\* A sentence of 155 characters and 31 words: "rust rust .. rust.".
LongSentence ==
    [k \in 1..155 |->
        IF k = 155 THEN "." ELSE <<"r", "u", "s", "t", " ">>[((k - 1) % 5) + 1]]

KeyPointTexts ==
    {JoinSentences(pieces) :
        pieces \in UNION {[1..n -> KeyPointPool] : n \in 0..(MaxPieces + 1)}}
    \cup {LongSentence, JoinSentences(<<<<"J","a","v","a"," ","c","o","d","e"," ","r","u","n","s","?">>, LongSentence>>)}

InitExtractKeyPoints ==
    \E text \in KeyPointTexts, max_points \in 1..MaxSentences :
        Entry("ExtractKeyPoints", <<text, max_points>>, <<>>, <<>>)

CallExtractKeyPoints ==
    /\ call.op = "ExtractKeyPoints" /\ pc = "entry"
    /\ \E key_points \in ExtractKeyPointsResults(call.arg[1], call.arg[2]) :
           Return(key_points)
    /\ UNCHANGED <<call, pages, groups, content, merging, num_clusters,
                   similarity_matrix, current_clusters>>

InitAnalyzer ==
    \/ InitGenerateSummary
    \/ InitSplitIntoSentences
    \/ InitExtractKeyPoints

NextAnalyzer ==
    \/ CallGenerateSummary
    \/ CallSplitIntoSentences
    \/ CallExtractKeyPoints

SpecAnalyzer == InitAnalyzer /\ [][NextAnalyzer]_vars

\* The sentences of the text at the positions kept, in the order of the text.
SentencesKept(sentences, kept) ==
    LET positions == AscendingSeq(kept)
    IN  [m \in 1..Len(positions) |-> sentences[positions[m]]]

\* C20: for every text with sentences and every max_sentences k, the
\* summary is made of sentences of the text in the order they have in the
\* text, and of at most k of them when the text has more than k sentences,
\* whatever the order of their scores.
SummaryInSourceOrder ==
    Returned("GenerateSummary") =>
        LET sentences == SplitIntoSentences(call.arg[1])
            k == call.arg[2]
        IN  sentences /= <<>> =>
              \E kept \in SUBSET (1..Len(sentences)) :
                  /\ result = JoinSentences(SentencesKept(sentences, kept))
                  /\ Len(sentences) > k => Cardinality(kept) <= k

\* A summary of two of three different sentences, the later of the two with
\* the greater score, came back with the earlier one first.
LaterSentenceScoredHigher ==
    /\ Returned("GenerateSummary")
    /\ LET sentences == SplitIntoSentences(call.arg[1])
           all_tokens == AnalyzerTokenize(call.arg[1])
           max_freq == MaxFrequency(all_tokens)
       IN  /\ Len(sentences) = 3 /\ call.arg[2] = 2
           /\ \E i, j \in 0..2 :
                 /\ i < j
                 /\ At(sentences, i) /= At(sentences, j)
                 /\ FpCmp(BoostedScore(sentences, j, all_tokens, max_freq),
                          BoostedScore(sentences, i, all_tokens, max_freq)) > 0
                 /\ result = JoinSentences(<<At(sentences, i), At(sentences, j)>>)

\* The claim C21 as stated: when splitting gives at most max_sentences
\* sentences, GenerateSummary returns them joined with single spaces in
\* their order, the empty string when there is no sentence.
FewSentencesJoinedOrEmpty ==
    Returned("GenerateSummary") =>
        LET sentences == SplitIntoSentences(call.arg[1])
        IN  Len(sentences) <= call.arg[2] =>
              result = (IF sentences = <<>> THEN <<>>
                        ELSE JoinWith(sentences, <<" ">>))

\* C21: when splitting gives at least one and at most max_sentences
\* sentences, GenerateSummary returns them joined with single spaces in
\* their order; when it gives none, GenerateSummary returns the text itself,
\* cut to its first 200 characters followed by "..." when it is longer, and
\* so the empty string only for the empty text.
FewSentencesJoinedOrTextItself ==
    Returned("GenerateSummary") =>
        LET text == call.arg[1]
            sentences == SplitIntoSentences(text)
        IN  Len(sentences) <= call.arg[2] =>
              result = (IF sentences /= <<>> THEN JoinWith(sentences, <<" ">>)
                        ELSE IF Len(text) <= 200 THEN text
                        ELSE [k \in 1..203 |-> IF k <= 200 THEN text[k] ELSE "."])

\* A text of fragments too short to be sentences came back as it is.
TextWithoutSentenceReturned ==
    /\ Returned("GenerateSummary")
    /\ call.arg[1] /= <<>>
    /\ SplitIntoSentences(call.arg[1]) = <<>>
    /\ Len(call.arg[1]) <= 200
    /\ result = call.arg[1]

\* The candidate sentences of the text: its pieces, trimmed.
CandidateSentences(text) ==
    LET pieces == SentencePieces(text)
    IN  [k \in 1..Len(pieces) |-> Trimmed(pieces[k])]

\* What the splitting does: it keeps the candidates of more than 10
\* characters after trimming, in their order, and drops the others.
CandidatesAboveTenKept ==
    Returned("SplitIntoSentences") =>
        result = SelectSeq(CandidateSentences(call.arg[1]),
                           LAMBDA candidate : Len(candidate) > 10)

\* C22: sentence splitting drops exactly the candidate sentences shorter
\* than 10 characters after trimming; a candidate of 10 or more characters
\* is kept.
CandidatesOfTenOrMoreKept ==
    Returned("SplitIntoSentences") =>
        result = SelectSeq(CandidateSentences(call.arg[1]),
                           LAMBDA candidate : Len(candidate) >= 10)

\* A candidate sentence of exactly 10 characters was dropped.
CandidateOfTenDropped ==
    /\ Returned("SplitIntoSentences")
    /\ \E candidate \in Range(CandidateSentences(call.arg[1])) :
          Len(candidate) = 10 /\ candidate \notin Range(result)

\* The lists of key points that rank the sentences by the scores of the
\* summary: ScoreSentence, times 1.2 for the first three sentences.
KeyPointsBySummaryScore(text, max_points) ==
    LET sentences == SplitIntoSentences(text)
        all_tokens == AnalyzerTokenize(text)
        max_freq == MaxFrequency(all_tokens)
        scores == [k \in 1..Len(sentences) |->
                      BoostedScore(sentences, k - 1, all_tokens, max_freq)]
    IN  {KeyPointsInOrder(sentences, order, max_points) :
           order \in SortedByScore(scores)}

\* C26: ExtractKeyPoints scores the sentences of a text as GenerateSummary
\* does when it selects (frequency score, length factor, and 1.2 times the
\* score for the first three sentences): the key points are the top sentences
\* by that score, in score order, the long ones cut.
KeyPointsScoredAsSummary ==
    Returned("ExtractKeyPoints") =>
        result \in KeyPointsBySummaryScore(call.arg[1], call.arg[2])

\* Two key points are returned, and the scores of the summary put another
\* sentence second: one of the first three, above a later one.
SecondKeyPointBelowBoostedSentence ==
    /\ Returned("ExtractKeyPoints")
    /\ Len(result) = 2
    /\ \A points \in KeyPointsBySummaryScore(call.arg[1], call.arg[2]) :
           points[1] = result[1] /\ points[2] /= result[2]

\* The key points are the top sentences by ScoreSentence alone, in score
\* order, the long ones cut: what C26 says without the factor 1.2.
KeyPointsRankedByPlainScore ==
    Returned("ExtractKeyPoints") =>
        LET sentences == SplitIntoSentences(call.arg[1])
            all_tokens == AnalyzerTokenize(call.arg[1])
            score(k) == ScoreSentence(sentences[k], all_tokens,
                                      MaxFrequency(all_tokens))
        IN  /\ Len(result) = Min2(call.arg[2], Len(sentences))
            /\ \E kept \in [1..Len(result) -> 1..Len(sentences)] :
                   /\ \A a, b \in 1..Len(result) : a /= b => kept[a] /= kept[b]
                   /\ \A a \in 1..Len(result) :
                          /\ result[a] = KeyPoint(sentences[kept[a]])
                          /\ \A b \in 1..Len(result) : a < b =>
                                 FpCmp(score(kept[a]), score(kept[b])) >= 0
                          /\ \A k \in 1..Len(sentences) :
                                 (\A b \in 1..Len(result) : kept[b] /= k) =>
                                     FpCmp(score(kept[a]), score(k)) >= 0

(***************************************************************************)
(* All the calls of GroupSuggester                                         *)
(***************************************************************************)
\* The calls on batches of fewer than MaxBatch pages or suggestions.
InitGroupSuggester ==
    /\ \/ Init
       \/ InitSuggester
    /\ Len(pages) < MaxBatch
    /\ Len(groups) < MaxBatch

NextGroupSuggester ==
    \/ Next
    \/ NextSuggester

SpecGroupSuggester == InitGroupSuggester /\ [][NextGroupSuggester]_vars

\* The methods of GroupSuggester that take a batch of pages, and those that
\* take a list of suggestions.
PageMethods ==
    {"SuggestByContent", "SuggestByDomain", "SuggestByTopic",
     "SuggestGroupsCombined", "DetectClusters", "GenerateCrossRecommendations"}
GroupMethods == {"MergeGroups", "RankSuggestions"}

\* The call was made on an empty batch.
EmptyBatch ==
    \/ call.op \in PageMethods /\ pages = <<>>
    \/ call.op \in GroupMethods /\ groups = <<>>

\* C23: on an empty batch SuggestByContent, SuggestByDomain, SuggestByTopic,
\* SuggestGroupsCombined, DetectClusters, MergeGroups, RankSuggestions and
\* GenerateCrossRecommendations return at once, with an empty result,
\* whatever the threshold or the target count.
EmptyBatchGivesEmptyResult ==
    (EmptyBatch /\ pc /= "entry") => (pc = "done" /\ result = <<>>)

\* DetectClusters came back from an empty batch with a target of two.
EmptyBatchClusteredForTwo ==
    /\ Returned("DetectClusters")
    /\ pages = <<>> /\ call.arg = 2
    /\ result = <<>>

(***************************************************************************)
(* The pair of clusters a merge takes                                      *)
(***************************************************************************)
\* The mean of the matrix entries between the members of clusters a and b,
\* counted from 0, of the current clusters.
MeanBetween(a, b) ==
    LET cluster_a == At(current_clusters, a)
        cluster_b == At(current_clusters, b)
        entries == [p \in Range(cluster_a) \X Range(cluster_b) |->
                       At(At(similarity_matrix, p[1]), p[2])]
    IN  SumOver(entries, DOMAIN entries) \div Cardinality(DOMAIN entries)

\* The pairs (i, j), i < j, of current clusters, and the scan order on them.
ClusterPairs == UnorderedPairs(0..(Len(current_clusters) - 1))
ScannedBefore(p, q) == p[1] < q[1] \/ (p[1] = q[1] /\ p[2] < q[2])

\* The pair p has the highest mean, and no pair scanned before it has it too.
FirstMostSimilar(p) ==
    \A q \in ClusterPairs :
        /\ MeanBetween(q[1], q[2]) <= MeanBetween(p[1], p[2])
        /\ ScannedBefore(q, p) => MeanBetween(q[1], q[2]) < MeanBetween(p[1], p[2])

\* The clusters after cluster j went to the end of cluster i and was removed.
JoinedInto(clusters, i, j) ==
    [k \in 1..(Len(clusters) - 1) |->
        IF k = i + 1 THEN At(clusters, i) \o At(clusters, j)
        ELSE IF k <= j THEN clusters[k]
        ELSE clusters[k + 1]]

\* C24: every iteration of the merge loop of DetectClusters merges the pair
\* of clusters (i, j), i < j, of the highest average-linkage similarity, the
\* first such pair in scan order when several have it: the members of
\* cluster j are appended to cluster i and cluster j is removed.
MergeTakesFirstMostSimilarPair ==
    [][ClustersMerge =>
          \E p \in ClusterPairs :
              /\ FirstMostSimilar(p)
              /\ current_clusters' = JoinedInto(current_clusters, p[1], p[2])]_vars

\* Pages 0-1 and pages 2-3 were equally the most similar of a batch of four,
\* pages 0-2 were less, and the first merge has taken pages 0-1.
FirstOfTiedPairsMerged ==
    /\ InClusterLoop
    /\ Len(pages) = 4
    /\ At(At(similarity_matrix, 0), 1) = At(At(similarity_matrix, 2), 3)
    /\ \A r, c \in 0..3 :
           r /= c => At(At(similarity_matrix, r), c) <= At(At(similarity_matrix, 0), 1)
    /\ At(At(similarity_matrix, 0), 2) < At(At(similarity_matrix, 0), 1)
    /\ current_clusters = <<(<<0, 1>>), (<<2>>), (<<3>>)>>

(***************************************************************************)
(* The number of merges                                                    *)
(***************************************************************************)
\* The number of clusters the merge loop leaves for n pages and target t.
ClustersLeft(n, t) == Max2(1, Min2(n, t))

\* C25: for a batch of n >= 1 documents and the effective target t >= 1, the
\* merge loop of DetectClusters starts from n clusters, every merge takes the
\* number of clusters down by exactly one and never below max(1, min(n, t)),
\* and max(1, min(n, t)) clusters are left when the loop has ended, that is
\* after n - max(1, min(n, t)) merges.
MergesDownToTarget ==
    /\ [](InClusterLoop =>
            /\ num_clusters >= 1
            /\ Len(current_clusters) <= Len(pages)
            /\ Len(current_clusters) >= ClustersLeft(Len(pages), num_clusters))
    /\ [][ClustersMerge => Len(current_clusters') = Len(current_clusters) - 1]_vars
    /\ [][ClustersEnter /\ pages /= <<>> => Len(current_clusters') = Len(pages)]_vars
    /\ []((ClustersDone /\ pages /= <<>>) =>
            Len(current_clusters) = ClustersLeft(Len(pages), num_clusters))

\* Four pages were merged twice down to the two clusters asked for.
FourPagesMergedToTwo ==
    /\ ClustersDone
    /\ Len(pages) = 4
    /\ call.arg = 2
    /\ Len(current_clusters) = 2

(***************************************************************************)
(* Targets that leave nothing to merge                                     *)
(***************************************************************************)
\* C27: DetectClusters returns no group whenever the effective target is at
\* least the number of documents; with the automatic target (num_clusters 0)
\* every batch of one or two documents gives the empty result, identical
\* documents included.
NoGroupsWhenTargetCoversBatch ==
    ClustersDone =>
        /\ TargetClusters(call.arg, Len(pages)) >= Len(pages) => result = <<>>
        /\ (call.arg = 0 /\ Len(pages) \in {1, 2}) => result = <<>>

\* Two identical pages with words in their text were clustered with the
\* automatic target, and no group came back.
IdenticalPairLeftUngrouped ==
    /\ ClustersDone
    /\ call.arg = 0
    /\ Len(pages) = 2
    /\ pages[1] = pages[2]
    /\ pages[1].text /= <<>>
    /\ result = <<>>

(***************************************************************************)
(* The reason of a recommendation                                          *)
(***************************************************************************)
\* Pages i and j, counted from 0, share no keyword and are not both without.
KeywordsApart(i, j) ==
    /\ At(pages, i).keywords /= <<>> \/ At(pages, j).keywords /= <<>>
    /\ \A a \in 1..Len(At(pages, i).keywords), b \in 1..Len(At(pages, j).keywords) :
           At(pages, i).keywords[a] /= At(pages, j).keywords[b]

\* C28: GenerateCrossRecommendations gives the reason "Highly similar content"
\* only to a pair of pages that both have no keywords; a pair where a page has
\* a keyword and none is shared has a relevance of at most 0.6 and the reason
\* "Related content".
HighlySimilarOnlyWithoutKeywords ==
    Returned("GenerateCrossRecommendations") =>
        \A i, j \in 0..(Len(pages) - 1) : \A k \in RecommendationsOf(i, j) :
            /\ result[k].reason = <<"H","i","g","h","l","y"," ","s","i","m","i","l","a","r"," ","c","o","n","t","e","n","t">> =>
                   At(pages, i).keywords = <<>> /\ At(pages, j).keywords = <<>>
            /\ KeywordsApart(i, j) =>
                   /\ FpCmp(result[k].relevance_score, Flt(6, 10)) <= 0
                   /\ result[k].reason = <<"R","e","l","a","t","e","d"," ","c","o","n","t","e","n","t">>

\* One pair without keywords was recommended as highly similar, and a pair of
\* the same text with a keyword on one side only as related, at 0.6.
HighlySimilarAndRelatedPairs ==
    /\ Returned("GenerateCrossRecommendations")
    /\ \E k \in 1..Len(result) : result[k].reason = <<"H","i","g","h","l","y"," ","s","i","m","i","l","a","r"," ","c","o","n","t","e","n","t">>
    /\ \E i, j \in 0..(Len(pages) - 1) : \E k \in RecommendationsOf(i, j) :
           /\ KeywordsApart(i, j)
           /\ At(pages, i).keywords = <<>>
           /\ FpCmp(result[k].relevance_score, Flt(6, 10)) = 0

(***************************************************************************)
(* Texts without tokens                                                    *)
(***************************************************************************)
\* Calls of CalculateCombinedSimilarity and of GenerateCrossRecommendations.
InitRelevance ==
    \/ InitCombinedSimilarity
    \/ InitRecommendations

NextRelevance ==
    \/ CallCombinedSimilarity
    \/ CallGenerateCrossRecommendations

SpecRelevance == InitRelevance /\ [][NextRelevance]_vars

Tokenless(text) == Tokenize(text) = <<>>

\* C29: CalculateCombinedSimilarity returns 0.5 for two texts without tokens
\* and 0 for a text without tokens and one with tokens; two pages with no
\* text and no keywords get the relevance 0.7, and with min_relevance 0.5 are
\* recommended to each other.
TokenlessTextsHalfSimilar ==
    /\ Returned("CalculateCombinedSimilarity") =>
           /\ (Tokenless(call.arg[1]) /\ Tokenless(call.arg[2])) =>
                  FpCmp(result, Dbl(1, 2)) = 0
           /\ (Tokenless(call.arg[1]) /= Tokenless(call.arg[2])) =>
                  FpCmp(result, Zero) = 0
    /\ (Returned("GenerateCrossRecommendations") /\ call.arg[2] = Flt(1, 2)) =>
           \A i, j \in 0..(Len(pages) - 1) :
               (/\ i < j
                /\ Tokenless(At(pages, i).text) /\ Tokenless(At(pages, j).text)
                /\ At(pages, i).keywords = <<>> /\ At(pages, j).keywords = <<>>) =>
                   \E k \in RecommendationsOf(i, j) :
                       FpCmp(result[k].relevance_score, Flt(7, 10)) = 0

\* Two pages without text and keywords were recommended at 0.7, as related.
BlankPagesRecommended ==
    /\ Returned("GenerateCrossRecommendations")
    /\ call.arg[2] = Flt(1, 2)
    /\ \E i, j \in 0..(Len(pages) - 1) : \E k \in RecommendationsOf(i, j) :
           /\ At(pages, i).text = <<>> /\ At(pages, j).text = <<>>
           /\ At(pages, i).keywords = <<>> /\ At(pages, j).keywords = <<>>
           /\ FpCmp(result[k].relevance_score, Flt(7, 10)) = 0
           /\ result[k].reason = <<"R","e","l","a","t","e","d"," ","c","o","n","t","e","n","t">>

(***************************************************************************)
(* Groups left apart by MergeGroups                                        *)
(***************************************************************************)
DuplicateFreeGroups == DuplicateFree(groups)

\* |A \cap B| / |A \cup B| of two sets of ids is at least the threshold, a
\* number of Scale-ths; the ratio of two empty sets counts as 0.
OverlapAtLeast(set_a, set_b, threshold) ==
    /\ set_a \cup set_b /= {}
    /\ Cardinality(set_a \cap set_b) * Scale
           >= threshold * Cardinality(set_a \cup set_b)

\* C30: after MergeGroups(groups, t) on duplicate-free groups no two distinct
\* groups of the output have a member-id overlap ratio of t or more, that is,
\* MergeGroups(MergeGroups(groups, t), t) = MergeGroups(groups, t).
MergedGroupsApart ==
    (Returned("MergeGroups") /\ DuplicateFreeGroups) =>
        /\ \A a, b \in 1..Len(result) :
               a /= b => ~OverlapAtLeast(Range(result[a].page_ids),
                                         Range(result[b].page_ids), call.arg)
        /\ MergeGroups(result, call.arg) = result

\* Two groups are returned for duplicate-free groups, the second with all its
\* pages in the first, which a later group was folded into.
ReturnedGroupInsideAnother ==
    /\ Returned("MergeGroups")
    /\ DuplicateFreeGroups
    /\ Len(result) = 2
    /\ Range(result[2].page_ids) \subseteq Range(result[1].page_ids)
    /\ result[2].page_ids /= <<>>
    /\ Len(merging.merged_from[1]) = 2

\* The ids of the input groups folded into output group a from before input
\* group j, counted from 0.
HeldBefore(a, j) ==
    UNION {Range(At(groups, i).page_ids) :
              i \in {i \in Range(merging.merged_from[a]) : i < j}}

\* An input group in a later output group was below the threshold against
\* every earlier output group as it stood when the two were compared.
GroupsApartWhenCompared ==
    (Returned("MergeGroups") /\ Len(groups) > 1) =>
        \A a, b \in 1..Len(result) : a < b =>
            \A j \in Range(merging.merged_from[b]) :
                ~OverlapAtLeast(HeldBefore(a, j), Range(At(groups, j).page_ids),
                                call.arg)

=============================================================================
